---- MODULE Spec2Model ----
(***************************************************************************)
(* ts-smart-schema: the schema validation engine (Schema._parse and its   *)
(* variants) and the Versioned history wrapper, as state machines.        *)
(*                                                                         *)
(* JavaScript values are tagged records [t, v]; a schema node is a record *)
(* whose field k names its class; a Result is a record whose tag is "Ok", *)
(* "Err", or "Throw" when the call raised instead of returning.           *)
(***************************************************************************)
EXTENDS Integers, Sequences, FiniteSets, TLC

\* ------------------------------------------------------------------------
\* Bounds of the exploration
\* ------------------------------------------------------------------------
MaxVersionsBound == 3
MaxSteps == 2
MaxNum == 1
MaxBuild == 2

\* ------------------------------------------------------------------------
\* JavaScript values
\* ------------------------------------------------------------------------
Undef == [t |-> "undefined"]
Null == [t |-> "null"]
NaNv == [t |-> "nan"]
Num(n) == [t |-> "number", v |-> n]
Str(x) == [t |-> "string", v |-> x]
Bool(b) == [t |-> "boolean", v |-> b]
Arr(items) == [t |-> "array", v |-> items]
Obj(fields) == [t |-> "object", v |-> fields]
EmptyObj == Obj(<<>>)

\* typeof
TypeOf(x) ==
  CASE x.t = "undefined" -> "undefined"
    [] x.t = "null" -> "object"
    [] x.t = "nan" -> "number"
    [] x.t = "number" -> "number"
    [] x.t = "string" -> "string"
    [] x.t = "boolean" -> "boolean"
    [] x.t = "array" -> "object"
    [] x.t = "object" -> "object"

\* String.prototype.length over the strings of the model
StrLen(x) ==
  CASE x = "" -> 0
    [] x = "a" -> 1
    [] x = "bb" -> 2
    [] x = "user" -> 4
    [] x = "admin" -> 5
    [] OTHER -> 3

\* Number.prototype.toString for array indices
IndexToString(i) ==
  CASE i = 0 -> "0"
    [] i = 1 -> "1"
    [] i = 2 -> "2"
    [] i = 3 -> "3"
    [] OTHER -> "n"

HasKey(x, key) == x.t = "object" /\ key \in DOMAIN x.v

\* function update that may extend the domain (result[key] = value)
Put(f, key, val) == [x \in (DOMAIN f) \cup {key} |-> IF x = key THEN val ELSE f[x]]

\* ------------------------------------------------------------------------
\* ValidationOptions, ValidationIssue, Result
\* ------------------------------------------------------------------------
DEFAULT_VALIDATION_OPTIONS ==
  [path |-> <<>>, abortEarly |-> FALSE, stripUnknown |-> FALSE, defaults |-> TRUE]

\* { ...DEFAULT_VALIDATION_OPTIONS, ...options }
MergeOptions(options) ==
  [key \in (DOMAIN DEFAULT_VALIDATION_OPTIONS) \cup (DOMAIN options) |->
     IF key \in DOMAIN options THEN options[key] ELSE DEFAULT_VALIDATION_OPTIONS[key]]

\* { ...options, path: p }
WithPath(options, p) == Put(options, "path", p)

Issue(code, path) == [path |-> path, code |-> code]

\* ValidationError.typeMismatch
TypeMismatch(path) == <<Issue("invalid_type", path)>>

\* st carries what a call leaves behind: the ids of the resolved lazy schemas
\* and the sequence of user-function invocations
NoEffects == [lz |-> {}, calls |-> <<>>]
Called(st, kind, id) == [st EXCEPT !.calls = Append(@, <<kind, id>>)]
\* the same, for a pipeline stage: the value the function received is kept too
CalledWith(st, kind, id, value) == [st EXCEPT !.calls = Append(@, <<kind, id, value>>)]

OkR(value, st) == [tag |-> "Ok", value |-> value, issues |-> <<>>, st |-> st]
ErrR(issues, st) == [tag |-> "Err", value |-> Undef, issues |-> issues, st |-> st]
ThrowR(st) == [tag |-> "Throw", value |-> Undef, issues |-> <<>>, st |-> st]

IsOk(r) == r.tag = "Ok"
IsErr(r) == r.tag = "Err"
Threw(r) == r.tag = "Throw"

Codes(issues) == {issues[i].code : i \in DOMAIN issues}

\* ------------------------------------------------------------------------
\* User-supplied functions, named by an id
\* ------------------------------------------------------------------------
\* refinement(value): TRUE / FALSE, or raises
Refinement(id, value) ==
  CASE id = "isPositive" -> [threw |-> FALSE, val |-> (value.t = "number" /\ value.v > 0)]
    [] id = "never" -> [threw |-> FALSE, val |-> FALSE]
    [] id = "throws" -> [threw |-> TRUE, val |-> FALSE]
    [] OTHER -> [threw |-> FALSE, val |-> TRUE]

\* transformer(value): a bare value, a Result, or raises
Transformer(id, value) ==
  CASE id = "double" ->
         [kind |-> "value", val |-> IF value.t = "number" THEN Num(2 * value.v) ELSE NaNv]
    [] id = "toErr" -> [kind |-> "err", val |-> Undef]
    [] id = "toOkNull" -> [kind |-> "ok", val |-> Null]
    [] id = "throws" -> [kind |-> "throw", val |-> Undef]
    [] OTHER -> [kind |-> "value", val |-> value]

\* preprocessor(value)
Preprocessor(id, value) ==
  CASE id = "nullToZero" ->
         [threw |-> FALSE, val |-> IF value.t = "null" THEN Num(0) ELSE value]
    [] id = "throws" -> [threw |-> TRUE, val |-> Undef]
    [] OTHER -> [threw |-> FALSE, val |-> value]

\* postprocessor(value)
Postprocessor(id, value) ==
  CASE id = "wrap" -> [threw |-> FALSE, val |-> Arr(<<value>>)]
    [] id = "throws" -> [threw |-> TRUE, val |-> Undef]
    [] OTHER -> [threw |-> FALSE, val |-> value]

\* validator(value) of s.custom: a Result, or raises
Validator(id, value) ==
  CASE id = "isBoolean" ->
         IF value.t = "boolean" THEN [kind |-> "ok", val |-> value, issues |-> <<>>]
         ELSE [kind |-> "err", val |-> Undef, issues |-> TypeMismatch(<<>>)]
    [] id = "rejectAll" ->
         [kind |-> "err", val |-> Undef, issues |-> <<Issue("invalid_value", <<>>)>>]
    [] id = "seven" -> [kind |-> "ok", val |-> Num(7), issues |-> <<>>]
    [] id = "throws" -> [kind |-> "throw", val |-> Undef, issues |-> <<>>]
    [] OTHER -> [kind |-> "ok", val |-> value, issues |-> <<>>]

\* the user's async validator, settled: TRUE / FALSE, or rejects
AsyncValidator(id, value) ==
  CASE id = "isAvailable" -> [threw |-> FALSE, val |-> value # Str("bb")]
    [] id = "throws" -> [threw |-> TRUE, val |-> FALSE]
    [] OTHER -> [threw |-> FALSE, val |-> TRUE]

\* ------------------------------------------------------------------------
\* Schema nodes (constructors and builder methods)
\* ------------------------------------------------------------------------
number == [k |-> "number", positive |-> FALSE, negative |-> FALSE, min |-> {}, max |-> {}]
string == [k |-> "string", minLength |-> {}, maxLength |-> {}]
boolean == [k |-> "boolean", default |-> {}]
any == [k |-> "any"]
createEnum(values) == [k |-> "enum", values |-> values]
custom(validator) == [k |-> "custom", validator |-> validator]

NumberPositive(s) == [s EXCEPT !.positive = TRUE, !.negative = FALSE]
NumberMin(s, n) == [s EXCEPT !.min = {n}]
NumberMax(s, n) == [s EXCEPT !.max = {n}]
StringMin(s, n) == [s EXCEPT !.minLength = {n}]
BooleanDefault(s, b) == [s EXCEPT !.default = {Bool(b)}]

\* OptionalNumberSchema, OptionalStringSchema, OptionalBooleanSchema accept
\* undefined and null; OptionalAnySchema accepts undefined only
Optional(s) == [k |-> "optional", base |-> s, nullish |-> (s.k # "any")]

array(item) ==
  [k |-> "array", item |-> item, minItems |-> {}, maxItems |-> {},
   uniqueItems |-> FALSE, default |-> {}]
ArrayMin(s, n) == [s EXCEPT !.minItems = {n}]
ArrayMax(s, n) == [s EXCEPT !.maxItems = {n}]
ArrayUnique(s) == [s EXCEPT !.uniqueItems = TRUE]
ArrayDefault(s, items) == [s EXCEPT !.default = {items}]
OptionalArray(s) == [k |-> "optionalArray", array |-> s]

\* shape is the ordered list of <<key, schema>>; own names which `required`
\* method the instance carries: the prototype's, or one of the two closures
\* that partial() attaches (capt is the set the inner closure captured)
ObjectSchema(shape, required, defaults, own, capt) ==
  [k |-> "object", shape |-> shape, required |-> required, defaults |-> defaults,
   own |-> own, capt |-> capt]
ShapeKeys(shape) == {shape[i][1] : i \in DOMAIN shape}
object(shape) == ObjectSchema(shape, ShapeKeys(shape), <<>>, "prototype", {})
OptionalObject(s) == [k |-> "optionalObject", base |-> s]

createUnionSchema(schemas) == [k |-> "union", schemas |-> schemas]
createDiscriminatedUnionSchema(discriminator, schemas) ==
  [k |-> "discriminatedUnion", discriminator |-> discriminator, schemas |-> schemas]
createIntersectionSchema(a, b) == [k |-> "intersection", schemas |-> <<a, b>>]

\* factory: [f |-> "throws"], [f |-> "returns", schema |-> S] or
\* [f |-> "partialOf", of |-> lazy]; text: the factory's source text contains
\* both 'array' and 'default'
createLazySchema(id, factory, text) ==
  [k |-> "lazy", id |-> id, factory |-> factory, text |-> text]

RefinedSchema(base, refinement) == [k |-> "refine", base |-> base, fn |-> refinement]
TransformSchema(base, transformer) == [k |-> "transform", base |-> base, fn |-> transformer]
PreprocessSchema(base, preprocessor) == [k |-> "preprocess", base |-> base, fn |-> preprocessor]
PostprocessSchema(base, postprocessor) == [k |-> "postprocess", base |-> base, fn |-> postprocessor]
asyncValidate(base, validator) == [k |-> "async", base |-> base, fn |-> validator]

\* ------------------------------------------------------------------------
\* _parse of the primitive variants
\* ------------------------------------------------------------------------
NumberParse(s, data, options, st) ==
  IF TypeOf(data) # "number" \/ data.t = "nan"
  THEN ErrR(TypeMismatch(options.path), st)
  ELSE LET value == data.v
           path == options.path
           issues ==
             (IF s.positive /\ value <= 0 THEN <<Issue("number.positive", path)>> ELSE <<>>)
             \o (IF s.negative /\ value >= 0 THEN <<Issue("number.negative", path)>> ELSE <<>>)
             \o (IF \E m \in s.min : value < m THEN <<Issue("number.min", path)>> ELSE <<>>)
             \o (IF \E m \in s.max : value > m THEN <<Issue("number.max", path)>> ELSE <<>>)
       IN IF Len(issues) > 0 THEN ErrR(issues, st) ELSE OkR(data, st)

StringParse(s, data, options, st) ==
  IF TypeOf(data) # "string"
  THEN ErrR(TypeMismatch(options.path), st)
  ELSE LET path == options.path
           issues ==
             (IF \E m \in s.minLength : StrLen(data.v) < m
              THEN <<Issue("string.min_length", path)>> ELSE <<>>)
             \o (IF \E m \in s.maxLength : StrLen(data.v) > m
                 THEN <<Issue("string.max_length", path)>> ELSE <<>>)
       IN IF Len(issues) > 0 THEN ErrR(issues, st) ELSE OkR(data, st)

BooleanParse(s, data, options, st) ==
  IF data.t = "undefined" /\ s.default # {}
  THEN OkR(CHOOSE d \in s.default : TRUE, st)
  ELSE IF TypeOf(data) # "boolean"
       THEN ErrR(TypeMismatch(options.path), st)
       ELSE OkR(data, st)

AnyParse(s, data, options, st) == OkR(data, st)

EnumParse(s, data, options, st) ==
  IF data \notin s.values
  THEN ErrR(<<Issue("enum.invalid", options.path)>>, st)
  ELSE OkR(data, st)

\* CustomSchema._parse: the validator sees the value only, never the options
CustomParse(s, data, options, st) ==
  LET st1 == Called(st, "validator", s.validator)
      out == Validator(s.validator, data)
  IN CASE out.kind = "throw" -> ThrowR(st1)
       [] out.kind = "err" -> ErrR(out.issues, st1)
       [] OTHER -> OkR(out.val, st1)

\* ------------------------------------------------------------------------
\* _parse of the composite variants
\* ------------------------------------------------------------------------
RECURSIVE Parse(_, _, _, _)
RECURSIVE ObjectLoop(_, _, _, _, _, _, _)
RECURSIVE ArrayLoop(_, _, _, _, _, _, _)
RECURSIVE UnionLoop(_, _, _, _, _, _)
RECURSIVE IntersectionLoop(_, _, _, _, _, _, _)
RECURSIVE ContextualLoop(_, _, _, _, _)
RECURSIVE Partial(_)
RECURSIVE LazyFactory(_, _)
RECURSIVE LazyTarget(_)

\* Schema.safeParse
SafeParse(s, data, options, st) == Parse(s, data, MergeOptions(options), st)

\* the unknown-key pass and the final return of ObjectSchema._parse
ObjectFinish(s, value, options, result, issues, st) ==
  LET known == ShapeKeys(s.shape)
      extra ==
        IF ~options.stripUnknown
        THEN {key \in DOMAIN value.v : key \notin known}
        ELSE {key \in DOMAIN value.v : key \in known /\ key \notin DOMAIN result}
      full == [key \in (DOMAIN result) \cup extra |->
                 IF key \in extra THEN value.v[key] ELSE result[key]]
  IN IF Len(issues) > 0 THEN ErrR(issues, st) ELSE OkR(Obj(full), st)

\* the field loop without default resolution for an absent required field:
\* the issue is emitted whatever defaults exist
ObjectLoopNoResolution(s, value, options, i, result, issues, st) ==
  IF i > Len(s.shape)
  THEN ObjectFinish(s, value, options, result, issues, st)
  ELSE
    LET key == s.shape[i][1]
        propPath == Append(options.path, key)
        propResult == SafeParse(s.shape[i][2], value.v[key], WithPath(options, propPath), st)
    IN
    IF key \in DOMAIN value.v
    THEN CASE Threw(propResult) -> propResult
           [] IsOk(propResult) ->
                ObjectLoop(s, value, options, i + 1,
                           Put(result, key, propResult.value), issues, propResult.st)
           [] OTHER ->
                IF options.abortEarly
                THEN ErrR(issues \o propResult.issues, propResult.st)
                ELSE ObjectLoop(s, value, options, i + 1, result,
                                issues \o propResult.issues, propResult.st)
    ELSE IF key \in s.required
         THEN LET all == Append(issues, Issue("object.required", propPath))
              IN IF options.abortEarly
                 THEN ErrR(all, st)
                 ELSE ObjectLoop(s, value, options, i + 1, result, all, st)
         ELSE ObjectLoop(s, value, options, i + 1,
                         IF options.defaults # FALSE /\ key \in DOMAIN s.defaults
                         THEN Put(result, key, s.defaults[key]) ELSE result,
                         issues, st)

\* the loop over Object.entries(this._shape), from entry i on
ObjectLoop(s, value, options, i, result, issues, st) ==
  IF i > Len(s.shape)
  THEN ObjectFinish(s, value, options, result, issues, st)
  ELSE
    LET key == s.shape[i][1]
        schema == s.shape[i][2]
        propPath == Append(options.path, key)
        useDefaults == options.defaults # FALSE
    IN
    IF key \in DOMAIN value.v
    THEN LET propResult == SafeParse(schema, value.v[key], WithPath(options, propPath), st)
         IN CASE Threw(propResult) -> propResult
              [] IsOk(propResult) ->
                   ObjectLoop(s, value, options, i + 1,
                              Put(result, key, propResult.value), issues, propResult.st)
              [] OTHER ->
                   LET all == issues \o propResult.issues
                   IN IF options.abortEarly /\ Len(all) > 0
                      THEN ErrR(all, propResult.st)
                      ELSE ObjectLoop(s, value, options, i + 1, result, all, propResult.st)
    ELSE
      LET \* schema.safeParse(undefined, {...options, path, defaults: true}) in try/catch
          probe == SafeParse(schema, Undef,
                             Put(WithPath(options, propPath), "defaults", TRUE), st)
          found == IsOk(probe) /\ probe.value # Undef
      IN
      IF key \in s.required
      THEN IF useDefaults /\ key \in DOMAIN s.defaults
           THEN ObjectLoop(s, value, options, i + 1,
                           Put(result, key, s.defaults[key]), issues, st)
           ELSE IF useDefaults /\ found
                THEN ObjectLoop(s, value, options, i + 1,
                                Put(result, key, probe.value), issues, probe.st)
                ELSE LET st1 == IF useDefaults THEN probe.st ELSE st
                         all == Append(issues, Issue("object.required", propPath))
                     IN IF options.abortEarly /\ Len(all) > 0
                        THEN ErrR(all, st1)
                        ELSE ObjectLoop(s, value, options, i + 1, result, all, st1)
      ELSE IF useDefaults
           THEN IF key \in DOMAIN s.defaults
                THEN ObjectLoop(s, value, options, i + 1,
                                Put(result, key, s.defaults[key]), issues, st)
                ELSE ObjectLoop(s, value, options, i + 1,
                                IF found THEN Put(result, key, probe.value) ELSE result,
                                issues, probe.st)
           ELSE ObjectLoop(s, value, options, i + 1, result, issues, st)

ObjectParse(s, data, options, st) ==
  IF TypeOf(data) # "object" \/ data.t = "null" \/ data.t = "array"
  THEN ErrR(TypeMismatch(options.path), st)
  ELSE ObjectLoop(s, data, options, 1, <<>>, <<>>, st)

\* the key under which the uniqueness pass remembers an item: the item itself
\* for string, number and boolean, its JSON serialisation otherwise
SeenKey(item) ==
  IF TypeOf(item) \in {"string", "number", "boolean"}
  THEN item
  ELSE [t |-> "json", v |-> item]

\* indices (0-based) of the items that repeat an earlier one
Duplicates(arr) ==
  {i - 1 : i \in {j \in DOMAIN arr : \E h \in 1..(j - 1) : SeenKey(arr[h]) = SeenKey(arr[j])}}

\* the length and uniqueness checks made before the items are visited
ArrayConstraintIssues(s, arr, path) ==
  (IF \E m \in s.minItems : Len(arr) < m
   THEN <<Issue("array.min_length", path)>> ELSE <<>>)
  \o (IF \E m \in s.maxItems : Len(arr) > m
      THEN <<Issue("array.max_length", path)>> ELSE <<>>)
  \o (IF s.uniqueItems /\ Len(arr) > 1 /\ Duplicates(arr) # {}
      THEN <<Issue("array.unique", path)>> ELSE <<>>)

\* the loop over the items, from item i (1-based here, i-1 in the path) on
ArrayLoop(s, arr, options, i, result, issues, st) ==
  IF i > Len(arr)
  THEN IF Len(issues) > 0 THEN ErrR(issues, st) ELSE OkR(Arr(result), st)
  ELSE
    LET itemPath == Append(options.path, IndexToString(i - 1))
        itemResult == SafeParse(s.item, arr[i], WithPath(options, itemPath), st)
    IN CASE Threw(itemResult) -> itemResult
         [] IsOk(itemResult) ->
              ArrayLoop(s, arr, options, i + 1, Append(result, itemResult.value),
                        issues, itemResult.st)
         [] OTHER ->
              LET all == issues \o itemResult.issues
              IN IF options.abortEarly
                 THEN ErrR(all, itemResult.st)
                 ELSE ArrayLoop(s, arr, options, i + 1, result, all, itemResult.st)

ArrayParse(s, data, options, st) ==
  IF data.t \in {"undefined", "null"}
  THEN IF s.default # {}
       THEN OkR(Arr(CHOOSE d \in s.default : TRUE), st)
       ELSE ErrR(TypeMismatch(options.path), st)
  ELSE IF data.t # "array"
       THEN ErrR(TypeMismatch(options.path), st)
       ELSE ArrayLoop(s, data.v, options, 1, <<>>,
                      ArrayConstraintIssues(s, data.v, options.path), st)

\* the member loop shared by UnionSchema and DiscriminatedUnionSchema: the
\* first success is returned, the failures' issues follow the head issue
UnionLoop(schemas, data, options, i, issues, st) ==
  IF i > Len(schemas)
  THEN ErrR(issues, st)
  ELSE LET result == SafeParse(schemas[i], data, options, st)
       IN CASE Threw(result) -> result
            [] IsOk(result) -> result
            [] OTHER -> UnionLoop(schemas, data, options, i + 1,
                                  issues \o result.issues, result.st)

UnionParseNoHead(s, data, options, st) ==
  UnionLoop(s.schemas, data, options, 1, <<>>, st)

UnionParse(s, data, options, st) ==
  UnionLoop(s.schemas, data, options, 1, <<Issue("union.no_match", options.path)>>, st)

DiscriminatedUnionParse(s, data, options, st) ==
  IF TypeOf(data) # "object" \/ data.t = "null"
  THEN ErrR(TypeMismatch(options.path), st)
  ELSE IF ~HasKey(data, s.discriminator)
       THEN ErrR(<<Issue("union.discriminator_missing", options.path)>>, st)
       ELSE UnionLoop(s.schemas, data, options, 1,
                      <<Issue("union.no_discriminator_match", options.path)>>, st)

AssignNothing(result, value) == result

\* Object.assign(result, value), for a plain-object value only
Assign(result, value) ==
  IF value.t = "object"
  THEN [key \in (DOMAIN result) \cup (DOMAIN value.v) |->
          IF key \in DOMAIN value.v THEN value.v[key] ELSE result[key]]
  ELSE result

IntersectionLoop(schemas, data, options, i, result, issues, st) ==
  IF i > Len(schemas)
  THEN IF Len(issues) > 0 THEN ErrR(issues, st) ELSE OkR(Obj(result), st)
  ELSE LET schemaResult == SafeParse(schemas[i], data, options, st)
       IN CASE Threw(schemaResult) -> schemaResult
            [] IsErr(schemaResult) ->
                 LET all == issues \o schemaResult.issues
                 IN IF options.abortEarly /\ Len(all) > 0
                    THEN ErrR(all, schemaResult.st)
                    ELSE IntersectionLoop(schemas, data, options, i + 1, result, all,
                                          schemaResult.st)
            [] OTHER ->
                 IntersectionLoop(schemas, data, options, i + 1,
                                  Assign(result, schemaResult.value), issues, schemaResult.st)

\* an intersection that stops at its first failing member whatever abortEarly is
IntersectionParseFailFast(s, data, options, st) ==
  IntersectionLoop(s.schemas, data, [options EXCEPT !.abortEarly = TRUE], 1, <<>>, <<>>, st)

IntersectionParse(s, data, options, st) ==
  IntersectionLoop(s.schemas, data, options, 1, <<>>, <<>>, st)

\* the schema a lazy node's factory produces (what _cachedSchema holds once set)
LazyTarget(s) ==
  IF s.factory.f = "partialOf"
  THEN Partial(LazyTarget(s.factory.of))
  ELSE s.factory.schema

\* one invocation of this.schemaFn()
LazyFactory(s, st) ==
  LET st1 == Called(st, "factory", s.id)
  IN CASE s.factory.f = "throws" -> [threw |-> TRUE, st |-> st1]
       [] s.factory.f = "partialOf" ->
            IF s.factory.of.id \in st1.lz
            THEN [threw |-> FALSE, st |-> st1]
            ELSE LET inner == LazyFactory(s.factory.of, st1)
                 IN IF inner.threw
                    THEN inner
                    ELSE [threw |-> FALSE,
                          st |-> [inner.st EXCEPT !.lz = @ \cup {s.factory.of.id}]]
       [] OTHER -> [threw |-> FALSE, st |-> st1]

LazyParseUncached(s, data, options, st) ==
  LET made == LazyFactory(s, st)
      cachedSt == made.st
  IN
  IF options.stripUnknown = TRUE /\ data.t # "undefined" /\ Len(options.path) > 0
  THEN IF s.id \in st.lz
       THEN Parse(LazyTarget(s), data, options, st)
       ELSE IF made.threw
            THEN ThrowR(made.st)
            ELSE Parse(LazyTarget(s), data, options, cachedSt)
  ELSE IF data.t = "undefined" /\ options.defaults = TRUE /\ s.text
       THEN OkR(Arr(<<>>), st)
       ELSE IF s.id \in st.lz
            THEN Parse(LazyTarget(s), data, options, st)
            ELSE IF made.threw
                 THEN IF data.t = "undefined" /\ options.defaults = TRUE
                      THEN OkR(Arr(<<>>), made.st)
                      ELSE ErrR(<<Issue("lazy.evaluation_error", options.path)>>, made.st)
                 ELSE Parse(LazyTarget(s), data, options, cachedSt)

\* LazySchema._parse
LazyParse(s, data, options, st) ==
  LET made == LazyFactory(s, st)
      cachedSt == [made.st EXCEPT !.lz = @ \cup {s.id}]
  IN
  IF options.stripUnknown = TRUE /\ data.t # "undefined" /\ Len(options.path) > 0
  THEN IF s.id \in st.lz
       THEN Parse(LazyTarget(s), data, options, st)
       ELSE IF made.threw
            THEN ThrowR(made.st)
            ELSE Parse(LazyTarget(s), data, options, cachedSt)
  ELSE IF data.t = "undefined" /\ options.defaults = TRUE /\ s.text
       THEN OkR(Arr(<<>>), st)
       ELSE IF s.id \in st.lz
            THEN Parse(LazyTarget(s), data, options, st)
            ELSE IF made.threw
                 THEN IF data.t = "undefined" /\ options.defaults = TRUE
                      THEN OkR(Arr(<<>>), made.st)
                      ELSE ErrR(<<Issue("lazy.evaluation_error", options.path)>>, made.st)
                 ELSE Parse(LazyTarget(s), data, options, cachedSt)

RefinedParse(s, data, options, st) ==
  LET result == Parse(s.base, data, options, st)
  IN IF ~IsOk(result)
     THEN result
     ELSE LET st1 == CalledWith(result.st, "refinement", s.fn, result.value)
              verdict == Refinement(s.fn, result.value)
          IN CASE verdict.threw -> ThrowR(st1)
               [] ~verdict.val -> ErrR(<<Issue("custom", options.path)>>, st1)
               [] OTHER -> OkR(result.value, st1)

\* a transform that converts the raw input and validates what comes out
TransformParseOnInput(s, data, options, st) ==
  LET st1 == CalledWith(st, "transformer", s.fn, data)
      out == Transformer(s.fn, data)
  IN IF out.kind = "value" /\ out.val.t # "nan"
     THEN Parse(s.base, out.val, options, st1)
     ELSE ErrR(<<Issue("custom_transform", <<>>)>>, st1)

TransformParse(s, data, options, st) ==
  LET baseResult == Parse(s.base, data, options, st)
  IN IF ~IsOk(baseResult)
     THEN baseResult
     ELSE LET st1 == CalledWith(baseResult.st, "transformer", s.fn, baseResult.value)
              out == Transformer(s.fn, baseResult.value)
          IN CASE out.kind = "throw" -> ThrowR(st1)
               [] out.kind = "ok" -> OkR(out.val, st1)
               [] out.kind = "err" -> ErrR(<<Issue("custom_transform", <<>>)>>, st1)
               [] out.val.t = "nan" ->
                    ErrR(<<Issue("transform.invalid_number", options.path)>>, st1)
               [] OTHER -> OkR(out.val, st1)

PreprocessParse(s, data, options, st) ==
  LET st1 == Called(st, "preprocessor", s.fn)
      processed == Preprocessor(s.fn, data)
  IN IF processed.threw
     THEN ThrowR(st1)
     ELSE Parse(s.base, processed.val, options, st1)

PostprocessParse(s, data, options, st) ==
  LET baseResult == Parse(s.base, data, options, st)
  IN IF ~IsOk(baseResult)
     THEN baseResult
     ELSE LET st1 == CalledWith(baseResult.st, "postprocessor", s.fn, baseResult.value)
              processed == Postprocessor(s.fn, baseResult.value)
          IN IF processed.threw
             THEN ErrR(<<Issue("process.postprocess_failed", options.path)>>, st1)
             ELSE OkR(processed.val, st1)

\* Optional*Schema._parse and OptionalArraySchema / OptionalObjectSchema
OptionalParse(s, data, options, st) ==
  IF data.t = "undefined" \/ (s.nullish /\ data.t = "null")
  THEN OkR(Undef, st)
  ELSE Parse(s.base, data, options, st)

\* the fields of a value: those of a plain object, none otherwise
Fields(value) == IF value.t = "object" THEN DOMAIN value.v ELSE {}

\* ------------------------------------------------------------------------
\* Context-dependent schemas
\* ------------------------------------------------------------------------
\* a rule: the context it is registered for and the schema validationFn returns
ContextualRule(context, s) == [context |-> context, schema |-> s]
ContextualSchema(base, rules) == [k |-> "contextual", base |-> base, rules |-> rules]
withContext(s) == ContextualSchema(s, <<>>)

\* whenContext of ContextualSchema appends a rule; whenContext of any other
\* schema wraps it with that one rule
whenContext(s, context, ruleSchema) ==
  IF s.k = "contextual"
  THEN ContextualSchema(s.base, Append(s.rules, ContextualRule(context, ruleSchema)))
  ELSE ContextualSchema(s, <<ContextualRule(context, ruleSchema)>>)

\* options.context
Context(options) == IF "context" \in DOMAIN options THEN options.context ELSE Undef

\* currentContext[key] of an object or array context: undefined when absent
ContextEntry(current, key) ==
  IF current.t = "object" /\ key \in DOMAIN current.v THEN current.v[key] ELSE Undef

\* every context matches
MatchesAnyContext(current, target) == TRUE

\* matchesContext(currentContext, targetContext), for a context that is
\* undefined, a string, an array or a plain object
MatchesContext(current, target) ==
  CASE current.t = "undefined" -> FALSE
    [] current.t = "string" /\ target.t = "string" -> current = target
    [] current.t \in {"object", "array"} /\ target.t \in {"object", "array"} ->
         \A key \in Fields(target) : ContextEntry(current, key) = target.v[key]
    [] OTHER -> FALSE

\* the rule loop of ContextualSchema._parse
ContextualLoop(rules, i, validatedData, options, st) ==
  IF i > Len(rules)
  THEN OkR(validatedData, st)
  ELSE IF MatchesContext(Context(options), rules[i].context)
       THEN LET st1 == Called(st, "rule", <<i, validatedData>>)
                ruleResult == Parse(rules[i].schema, validatedData, options, st1)
            IN IF ~IsOk(ruleResult)
               THEN ruleResult
               ELSE ContextualLoop(rules, i + 1, ruleResult.value, options, ruleResult.st)
       ELSE ContextualLoop(rules, i + 1, validatedData, options, st)

\* ContextualSchema._parse
ContextualParse(s, data, options, st) ==
  LET baseResult == Parse(s.base, data, options, st)
  IN IF ~IsOk(baseResult)
     THEN baseResult
     ELSE ContextualLoop(s.rules, 1, baseResult.value, options, baseResult.st)

\* ------------------------------------------------------------------------
\* Permission-gated and permission-aware schemas
\* ------------------------------------------------------------------------
restrict(s, requirement) == [k |-> "restricted", base |-> s, requirement |-> requirement]
\* withPermissions(s) followed by restrictField calls: fieldPermissions maps
\* a field name to its requirement
withPermissions(s, fieldPermissions) ==
  [k |-> "permissionAware", base |-> s, fieldPermissions |-> fieldPermissions]
\* a PermissionCondition { role, check }
Condition(role, check) == [t |-> "condition", role |-> role, check |-> check]

\* !x is false
Truthy(x) ==
  /\ x.t \notin {"undefined", "null", "nan"}
  /\ x # Str("") /\ x # Num(0) /\ x # Bool(FALSE)

\* Array.isArray(x) ? x : [x], as the set of its members
AsRoles(x) == IF x.t = "array" THEN {x.v[i] : i \in DOMAIN x.v} ELSE {x}

\* o[key] is truthy
Has(o, key) == HasKey(o, key) /\ Truthy(o.v[key])

\* RestrictedSchema.getUserRoles and PermissionAwareSchema.extractRoles
GetUserRoles(context) ==
  CASE ~Truthy(context) -> {}
    [] context.t = "string" -> {context}
    [] context.t = "array" -> {r \in AsRoles(context) : r.t = "string"}
    [] context.t = "object" ->
         CASE Has(context, "role") -> AsRoles(context.v["role"])
           [] Has(context, "roles") -> AsRoles(context.v["roles"])
           [] Has(context, "user") /\ Has(context.v["user"], "role") ->
                AsRoles(context.v["user"].v["role"])
           [] Has(context, "user") /\ Has(context.v["user"], "roles") ->
                AsRoles(context.v["user"].v["roles"])
           [] OTHER -> {}
    [] OTHER -> {}

\* condition.check(context): the user's predicate, named by an id
PermissionCheck(id, context) ==
  CASE id = "isOwner" -> HasKey(context, "owner") /\ context.v["owner"] = Bool(TRUE)
    [] OTHER -> TRUE

\* checkPermission of both classes
CheckPermission(requirement, userRoles, context) ==
  CASE requirement.t = "string" -> requirement \in userRoles
    [] requirement.t = "array" -> AsRoles(requirement) \cap userRoles # {}
    [] OTHER ->
         /\ Truthy(requirement.role) => AsRoles(requirement.role) \cap userRoles # {}
         /\ requirement.check # "none" => PermissionCheck(requirement.check, context)

Denied(options, st) == ErrR(<<Issue("permission.denied", options.path)>>, st)

RestrictedParseBaseFirst(s, data, options, st) ==
  LET baseResult == Parse(s.base, data, options, st)
  IN IF ~IsOk(baseResult) \/
        CheckPermission(s.requirement, GetUserRoles(Context(options)), Context(options))
     THEN baseResult
     ELSE Denied(options, baseResult.st)

\* RestrictedSchema._parse
RestrictedParse(s, data, options, st) ==
  IF ~CheckPermission(s.requirement, GetUserRoles(Context(options)), Context(options))
  THEN Denied(options, st)
  ELSE Parse(s.base, data, options, st)

\* PermissionAwareSchema.applyPermissions on the object the base returned
ApplyPermissions(s, data, context) ==
  LET allowed == {key \in DOMAIN data.v :
                    key \in DOMAIN s.fieldPermissions =>
                      CheckPermission(s.fieldPermissions[key], GetUserRoles(context), context)}
  IN Obj([key \in allowed |-> data.v[key]])

\* PermissionAwareSchema._parse
PermissionAwareParse(s, data, options, st) ==
  LET baseResult == Parse(s.base, data, options, st)
  IN IF ~Truthy(Context(options)) \/ ~IsOk(baseResult)
     THEN baseResult
     ELSE OkR(ApplyPermissions(s, baseResult.value, Context(options)), baseResult.st)

\* Schema._parse, dispatched on the class of the node
Parse(s, data, options, st) ==
  CASE s.k = "number" -> NumberParse(s, data, options, st)
    [] s.k = "string" -> StringParse(s, data, options, st)
    [] s.k = "boolean" -> BooleanParse(s, data, options, st)
    [] s.k = "any" -> AnyParse(s, data, options, st)
    [] s.k = "enum" -> EnumParse(s, data, options, st)
    [] s.k = "custom" -> CustomParse(s, data, options, st)
    [] s.k = "optional" -> OptionalParse(s, data, options, st)
    [] s.k = "array" -> ArrayParse(s, data, options, st)
    [] s.k = "optionalArray" ->
         OptionalParse([base |-> s.array, nullish |-> TRUE], data, options, st)
    [] s.k = "object" -> ObjectParse(s, data, options, st)
    [] s.k = "optionalObject" ->
         OptionalParse([base |-> s.base, nullish |-> TRUE], data, options, st)
    [] s.k = "union" -> UnionParse(s, data, options, st)
    [] s.k = "discriminatedUnion" -> DiscriminatedUnionParse(s, data, options, st)
    [] s.k = "intersection" -> IntersectionParse(s, data, options, st)
    [] s.k = "lazy" -> LazyParse(s, data, options, st)
    [] s.k = "refine" -> RefinedParse(s, data, options, st)
    [] s.k = "transform" -> TransformParse(s, data, options, st)
    [] s.k = "preprocess" -> PreprocessParse(s, data, options, st)
    [] s.k = "postprocess" -> PostprocessParse(s, data, options, st)
    [] s.k = "async" -> Parse(s.base, data, options, st)
    [] s.k = "restricted" -> RestrictedParse(s, data, options, st)
    [] s.k = "permissionAware" -> PermissionAwareParse(s, data, options, st)
    [] s.k = "contextual" -> ContextualParse(s, data, options, st)

\* how the promise of parseAsync settles
Resolved(value, st) == [tag |-> "Resolved", value |-> value, issues |-> <<>>, st |-> st]
Rejected(issues, st) == [tag |-> "Rejected", value |-> Undef, issues |-> issues, st |-> st]

\* a parseAsync that starts the async validator on the raw input
ParseAsyncEager(s, data, options, st) ==
  LET st1 == Called(st, "asyncValidator", <<s.fn, data>>)
      baseResult == SafeParse(s.base, data, options, st1)
  IN IF IsOk(baseResult) /\ AsyncValidator(s.fn, data).val
     THEN Resolved(baseResult.value, baseResult.st)
     ELSE Rejected(baseResult.issues, baseResult.st)

\* AsyncSchema.parseAsync, with the validator asyncValidate() wraps, and
\* Schema.parseAsync for every other class
ParseAsync(s, data, options, st) ==
  IF s.k = "async"
  THEN LET baseResult == SafeParse(s.base, data, options, st)
           st1 == Called(baseResult.st, "asyncValidator", <<s.fn, baseResult.value>>)
           verdict == AsyncValidator(s.fn, baseResult.value)
       IN CASE ~IsOk(baseResult) -> Rejected(baseResult.issues, baseResult.st)
            [] verdict.threw -> Rejected(<<Issue("async.error", <<>>)>>, st1)
            [] ~verdict.val -> Rejected(<<Issue("async.failed", <<>>)>>, st1)
            [] OTHER -> Resolved(baseResult.value, st1)
  ELSE LET result == Parse(s, data, MergeOptions(options), st)
       IN IF IsOk(result) THEN Resolved(result.value, result.st)
          ELSE Rejected(result.issues, result.st)

\* AsyncSchema.safeParseAsync: whatever is raised inside becomes a Failure
SafeParseAsync(s, data, options, st) ==
  LET baseResult == SafeParse(s.base, data, options, st)
      st1 == Called(baseResult.st, "asyncValidator", <<s.fn, baseResult.value>>)
      verdict == AsyncValidator(s.fn, baseResult.value)
      path == IF "path" \in DOMAIN options THEN options.path ELSE <<>>
  IN CASE Threw(baseResult) -> ErrR(<<Issue("async.failed", path)>>, baseResult.st)
       [] IsErr(baseResult) -> baseResult
       [] verdict.threw -> ErrR(<<Issue("async.error", <<>>)>>, st1)
       [] ~verdict.val -> ErrR(<<Issue("async.failed", <<>>)>>, st1)
       [] OTHER -> OkR(baseResult.value, st1)

\* ------------------------------------------------------------------------
\* Derived schemas: partial(), required(), default(), optional()
\* ------------------------------------------------------------------------
PartialShape(shape) == [i \in DOMAIN shape |-> <<shape[i][1], Partial(shape[i][2])>>]

PartialKeepingRequired(s) ==
  IF s.k = "object"
  THEN ObjectSchema(s.shape, s.required, s.defaults, "partial", {})
  ELSE s

Partial(s) ==
  CASE s.k \in {"number", "string", "boolean"} -> Optional(s)
    [] s.k \in {"any", "enum", "custom", "optional", "optionalArray"} -> s
    [] s.k = "array" -> OptionalArray([s EXCEPT !.item = Partial(s.item)])
    [] s.k = "object" ->
         ObjectSchema(PartialShape(s.shape), {}, s.defaults, "partial", {})
    [] s.k = "optionalObject" -> OptionalObject(Partial(s.base))
    [] s.k \in {"union", "discriminatedUnion", "intersection"} ->
         [s EXCEPT !.schemas = [i \in DOMAIN s.schemas |-> Partial(s.schemas[i])]]
    [] s.k = "lazy" ->
         createLazySchema(Append(s.id, "partial"), [f |-> "partialOf", of |-> s], FALSE)
    [] s.k \in {"refine", "transform", "preprocess", "postprocess", "restricted",
                "permissionAware", "async", "contextual"} ->
         [s EXCEPT !.base = Partial(s.base)]

RequiredReplacing(s, keys) == ObjectSchema(s.shape, keys, s.defaults, "prototype", {})

\* required(keys): ObjectSchema.prototype.required adds to this._required; the
\* closure attached by partial() starts from an empty set and returns a schema
\* whose own closure adds to the captured set
Required(s, keys) ==
  CASE s.own = "partial" -> ObjectSchema(s.shape, keys, s.defaults, "partialRequired", keys)
    [] s.own = "partialRequired" ->
         ObjectSchema(s.shape, s.capt \cup keys, s.defaults, "prototype", {})
    [] OTHER -> ObjectSchema(s.shape, s.required \cup keys, s.defaults, "prototype", {})

\* ObjectSchema.default(key, value): the key leaves the required set
ObjectDefault(s, key, value) ==
  ObjectSchema(s.shape, s.required \ {key}, Put(s.defaults, key, value), "prototype", {})

\* ObjectSchema.optional(keys)
ObjectOptionalKeys(s, keys) ==
  ObjectSchema(s.shape, s.required \ keys, s.defaults, "prototype", {})

\* ------------------------------------------------------------------------
\* State
\* ------------------------------------------------------------------------
VARIABLES
  schema,        \* the schema the caller holds
  built,         \* the builder calls that derived it from the initial schema
  input,         \* the value of the last safeParse call
  options,       \* the options of the last safeParse call
  result,        \* what the last safeParse call returned (or that it raised)
  lazyCache,     \* ids of the lazy nodes whose _cachedSchema is set
  op,            \* the last operation on the schema
  extension,     \* the own properties extend() assigned to the schema
  invoked,       \* ids of the lazy nodes whose factory has been invoked
  history,       \* Versioned._history: entries [data, label]
  currentIndex,  \* Versioned._currentIndex
  maxVersions,   \* Versioned._options.maxVersions
  autoVersion,   \* Versioned._options.autoVersion
  held,          \* the object the caller holds: 0 its own, i the one of entry i
  heldData,      \* the content of the caller's own object (Undef when held # 0)
  vop,           \* the last operation on the Versioned instance
  saved,         \* the instance as it was before the last revert(1)
  lastSteps,     \* the argument of the last revert / redo call (0 otherwise)
  dropped,       \* how many entries beyond the cursor the last call discarded
  mapping,       \* the BiMap instance the caller holds
  source         \* the value the caller last handed to BiMap.to

schemaVars == <<schema, built, input, options, result, lazyCache, op, extension, invoked>>
versionedVars == <<history, currentIndex, maxVersions, autoVersion, held, heldData, vop, saved,
                   lastSteps, dropped>>
bimapVars == <<mapping, source>>
vars == <<schema, built, input, options, result, lazyCache, op, extension, invoked,
          history, currentIndex, maxVersions, autoVersion, held, heldData, vop, saved,
          lastSteps, dropped, mapping, source>>

\* ------------------------------------------------------------------------
\* Versioned
\* ------------------------------------------------------------------------
RECURSIVE deepClone(_)
\* utils/clone deepClone, on plain values: a structural copy
deepClone(value) ==
  CASE value.t = "array" -> Arr([i \in DOMAIN value.v |-> deepClone(value.v[i])])
    [] value.t = "object" -> Obj([key \in DOMAIN value.v |-> deepClone(value.v[key])])
    [] OTHER -> value

Max(a, b) == IF a >= b THEN a ELSE b

\* the schema of the versioned data: object({ n: number().min(0) })
VersionedSchema == object(<<<<"n", NumberMin(number, 0)>>>>)
Data(x) == Obj([n |-> Num(x)])
Labels == {"edit"}

\* _trimHistory without the shift of the cursor
TrimHistoryKeepingIndex(h, index, maxV) ==
  IF Len(h) > maxV
  THEN [history |-> SubSeq(h, Len(h) - maxV + 1, Len(h)), index |-> index]
  ELSE [history |-> h, index |-> index]

\* Versioned._trimHistory
TrimHistory(h, index, maxV) ==
  IF Len(h) > maxV
  THEN LET excess == Len(h) - maxV
       IN [history |-> SubSeq(h, excess + 1, Len(h)), index |-> Max(0, index - excess)]
  ELSE [history |-> h, index |-> index]

\* _addVersion without the splice of the entries beyond the cursor
AddVersionKeepingFuture(h, index, data, label, maxV) ==
  LET pushed == Append(h, [data |-> deepClone(data), label |-> label])
  IN TrimHistory(pushed, Len(pushed) - 1, maxV)

\* Versioned._addVersion: the entry stores its own clone of the data
AddVersion(h, index, data, label, maxV) ==
  LET kept == IF index < Len(h) - 1 THEN SubSeq(h, 1, index + 1) ELSE h
      pushed == Append(kept, [data |-> deepClone(data), label |-> label])
  IN TrimHistory(pushed, Len(pushed) - 1, maxV)

\* `current` can be read: this._history[this._currentIndex] exists
HasCurrent == currentIndex + 1 \in DOMAIN history
Current == history[currentIndex + 1].data

NotSaved == [valid |-> FALSE, index |-> 0, history |-> <<>>]
NoMapping == [k |-> "none"]

\* createVersioned(data, options): the initial data is validated, then cloned
\* into the first entry; the caller keeps its own object
InitVersioned ==
  /\ schema = VersionedSchema /\ built = <<>> /\ input = Undef /\ options = <<>>
  /\ result = [tag |-> "None"] /\ lazyCache = {} /\ op = "init"
  /\ extension = <<>> /\ invoked = {}
  /\ maxVersions \in 0..MaxVersionsBound
  /\ autoVersion \in BOOLEAN
  /\ \E x \in 0..MaxNum :
       LET added == AddVersion(<<>>, 0, Data(x), "", maxVersions)
       IN /\ history = added.history
          /\ currentIndex = added.index
          /\ heldData = Data(x)
  /\ held = 0
  /\ vop = "new"
  /\ saved = NotSaved /\ lastSteps = 0 /\ dropped = 0
  /\ mapping = NoMapping /\ source = Undef

\* a raising call that had already cut the history at the cursor
RaisedTruncating(name) ==
  /\ vop' = name
  /\ saved' = NotSaved
  /\ dropped' = 0
  /\ history' = SubSeq(history, 1, IF currentIndex + 1 <= Len(history) THEN currentIndex + 1 ELSE Len(history))
  /\ UNCHANGED <<currentIndex, held, heldData>>

\* a call that raised leaves the instance as it was
Raised(name) ==
  /\ vop' = name
  /\ saved' = NotSaved
  /\ dropped' = 0
  /\ UNCHANGED <<history, currentIndex, held, heldData>>

\* the tail shared by transform and createVersion once the data is validated:
\* validated is the object safeParse built, which the caller receives; with
\* append it is cloned into a new entry, without it the current entry takes it
Commit(validated, label, name, append) ==
  LET added == AddVersion(history, currentIndex, validated, label, maxVersions)
  IN /\ history' = IF append THEN added.history
                   ELSE [history EXCEPT ![currentIndex + 1].data = validated]
     /\ currentIndex' = IF append THEN added.index ELSE currentIndex
     /\ held' = IF append THEN 0 ELSE currentIndex + 1
     /\ heldData' = IF append THEN validated ELSE Undef
     /\ vop' = name
     /\ saved' = NotSaved
     /\ lastSteps' = 0
     /\ dropped' = IF append THEN Max(0, Len(history) - 1 - currentIndex) ELSE 0

\* Versioned.transform(transformer, label): the transformer sets n to x
Transform(x, label) ==
  /\ UNCHANGED <<maxVersions, autoVersion>> /\ UNCHANGED <<schemaVars, bimapVars>>
  /\ IF ~HasCurrent
     THEN Raised("transformRaised") /\ lastSteps' = 0
     ELSE LET clonedData == deepClone(Current)
              mutated == Obj(Put(clonedData.v, "n", Num(x)))
              parsed == SafeParse(VersionedSchema, mutated, <<>>, NoEffects)
          IN IF ~IsOk(parsed)
             THEN Raised("transformRaised") /\ lastSteps' = 0
             ELSE Commit(parsed.value, label, "transform", autoVersion)

\* Versioned.createVersion(data, label)
CreateVersion(x, label) ==
  /\ UNCHANGED <<maxVersions, autoVersion>> /\ UNCHANGED <<schemaVars, bimapVars>>
  /\ LET parsed == SafeParse(VersionedSchema, Data(x), <<>>, NoEffects)
     IN IF ~IsOk(parsed)
        THEN Raised("createVersionRaised") /\ lastSteps' = 0
        ELSE Commit(parsed.value, label, "createVersion", TRUE)

\* Versioned.revert(steps): returns this.current, which the caller then holds
Revert(steps) ==
  /\ UNCHANGED <<maxVersions, autoVersion>> /\ UNCHANGED <<schemaVars, bimapVars>>
  /\ lastSteps' = steps
  /\ LET targetIndex == currentIndex - steps
     IN IF steps <= 0 \/ targetIndex < 0
        THEN Raised("revertRaised")
        ELSE /\ currentIndex' = targetIndex
             /\ held' = targetIndex + 1
             /\ heldData' = Undef
             /\ vop' = "revert"
             /\ saved' = IF steps = 1
                         THEN [valid |-> TRUE, index |-> currentIndex, history |-> history]
                         ELSE NotSaved
             /\ dropped' = 0
             /\ UNCHANGED history

RedoTargetShort(index, steps) == index + steps - 1

\* the index redo(steps) moves the cursor to
RedoTarget(index, steps) == index + steps

\* Versioned.redo(steps)
Redo(steps) ==
  /\ UNCHANGED <<maxVersions, autoVersion>> /\ UNCHANGED <<schemaVars, bimapVars>>
  /\ lastSteps' = steps
  /\ LET targetIndex == RedoTarget(currentIndex, steps)
     IN IF steps <= 0 \/ targetIndex >= Len(history)
        THEN Raised("redoRaised")
        ELSE /\ currentIndex' = targetIndex
             /\ held' = targetIndex + 1
             /\ heldData' = Undef
             /\ vop' = IF steps = 1 /\ vop = "revert" /\ saved.valid
                       THEN "redoAfterRevert" ELSE "redo"
             /\ saved' = IF steps = 1 /\ vop = "revert" THEN saved ELSE NotSaved
             /\ dropped' = 0
             /\ UNCHANGED history

\* the caller reads `current` and keeps the object it is handed
GetCurrent ==
  /\ UNCHANGED <<maxVersions, autoVersion>> /\ UNCHANGED <<schemaVars, bimapVars>>
  /\ lastSteps' = 0
  /\ IF ~HasCurrent
     THEN Raised("currentRaised")
     ELSE /\ held' = currentIndex + 1
          /\ heldData' = Undef
          /\ vop' = "current"
          /\ saved' = NotSaved
          /\ dropped' = 0
          /\ UNCHANGED <<history, currentIndex>>

\* the caller assigns x to property n of the object it holds
MutateHeld(x) ==
  /\ UNCHANGED <<maxVersions, autoVersion>> /\ UNCHANGED <<schemaVars, bimapVars>>
  /\ IF held = 0
     THEN /\ heldData' = Obj(Put(heldData.v, "n", Num(x)))
          /\ UNCHANGED history
     ELSE /\ history' = [history EXCEPT ![held].data = Obj(Put(@.v, "n", Num(x)))]
          /\ UNCHANGED heldData
  /\ vop' = "mutate"
  /\ saved' = NotSaved
  /\ lastSteps' = 0 /\ dropped' = 0
  /\ UNCHANGED <<currentIndex, held>>

NextVersioned ==
  \/ \E x \in (-1)..MaxNum, label \in Labels : Transform(x, label)
  \/ \E x \in (-1)..MaxNum, label \in Labels : CreateVersion(x, label)
  \/ \E steps \in 0..MaxSteps : Revert(steps)
  \/ \E steps \in 0..MaxSteps : Redo(steps)
  \/ GetCurrent
  \/ \E x \in (-1)..MaxNum : MutateHeld(x)

SpecVersioned == InitVersioned /\ [][NextVersioned]_vars

\* ------------------------------------------------------------------------
\* Properties of Versioned
\* ------------------------------------------------------------------------
\* C2: revert(1) followed at once by redo(1) puts the cursor back on the index
\* it had before the revert, `current` is again the value it was before, and
\* the history entries are those of before the pair.
HistoryRoundTrip ==
  vop = "redoAfterRevert" =>
    /\ currentIndex = saved.index
    /\ HasCurrent
    /\ Current = saved.history[saved.index + 1].data
    /\ history = saved.history

RoundTripDone ==
  /\ vop = "redoAfterRevert"
  /\ saved.index >= 1
  /\ Len(history) >= 2

\* C3: the number of history entries never exceeds maxVersions, and the
\* cursor always lies in the valid index range 0 .. length - 1.
HistoryCapped ==
  /\ Len(history) <= maxVersions
  /\ currentIndex \in 0..(Len(history) - 1)

\* C4: a caller that mutates an object it was handed (by `current`, revert,
\* redo, transform or createVersion) or the one it passed in leaves the data
\* of every history entry as it was.
SnapshotIsolation == [][vop' = "mutate" => history' = history]_vars

\* ------------------------------------------------------------------------
\* Schemas, values and options explored
\* ------------------------------------------------------------------------
PositiveMin == NumberMin(NumberPositive(number), 2)
ThrowingLazy == createLazySchema(<<"T">>, [f |-> "throws"], FALSE)
ArrayLazy ==
  createLazySchema(<<"A">>, [f |-> "returns", schema |-> ArrayDefault(array(number), <<>>)], TRUE)

LeafSchemas ==
  { number, NumberPositive(number), PositiveMin, StringMin(string, 2),
    BooleanDefault(boolean, TRUE), any, createEnum({Str("a")}),
    custom("isBoolean"), custom("seven"), custom("throws"),
    RefinedSchema(number, "isPositive"), RefinedSchema(string, "throws"),
    TransformSchema(number, "double"), TransformSchema(string, "double"),
    TransformSchema(number, "throws"), TransformSchema(number, "toErr"),
    PreprocessSchema(number, "nullToZero"), PreprocessSchema(number, "throws"),
    PostprocessSchema(number, "wrap"), PostprocessSchema(number, "throws"),
    ThrowingLazy, ArrayLazy }

User == object(<<<<"id", StringMin(string, 2)>>, <<"n", PositiveMin>>>>)

ObjectSchemas ==
  { User,
    ObjectDefault(User, "id", Str("dd")),
    ObjectDefault(User, "n", Num(-1)),
    object(<<<<"id", custom("seven")>>, <<"n", number>>>>),
    object(<<<<"id", RefinedSchema(string, "throws")>>, <<"n", number>>>>),
    object(<<<<"id", ThrowingLazy>>, <<"n", NumberPositive(number)>>>>),
    object(<<<<"id", string>>, <<"n", array(NumberPositive(number))>>>>),
    object(<<<<"id", BooleanDefault(boolean, TRUE)>>, <<"n", ArrayLazy>>>>),
    object(<<<<"id", NumberPositive(number)>>,
             <<"n", object(<<<<"id", StringMin(string, 2)>>>>)>>>>),
    object(<<<<"id", TransformSchema(number, "throws")>>,
             <<"n", PreprocessSchema(number, "throws")>>>>),
    object(<<<<"id", custom("throws")>>, <<"n", any>>>>) }

ArraySchemas ==
  { array(NumberPositive(number)), array(PositiveMin), array(User),
    ArrayUnique(ArrayMin(array(NumberPositive(number)), 2)),
    ArrayMax(array(StringMin(string, 2)), 1),
    ArrayDefault(ArrayMin(array(number), 1), <<>>),
    array(RefinedSchema(number, "throws")) }

UnionMembers ==
  { NumberPositive(number), PositiveMin, StringMin(string, 2),
    RefinedSchema(string, "throws"), User }

UnionSchemas ==
  {createUnionSchema(<<a, b>>) : a \in UnionMembers, b \in UnionMembers}
  \cup {createUnionSchema(<<PositiveMin, StringMin(string, 2), User>>)}

Variant(tag, payload) ==
  object(<<<<"type", createEnum({Str(tag)})>>, <<"n", payload>>>>)
Payloads == {PositiveMin, StringMin(string, 2), RefinedSchema(number, "throws")}

DiscriminatedSchemas ==
  {createDiscriminatedUnionSchema("type", <<Variant("a", x), Variant("b", y)>>) :
     x \in Payloads, y \in Payloads}

IntersectionSchemas ==
  { createIntersectionSchema(User, object(<<<<"x", number>>>>)),
    createIntersectionSchema(number, NumberPositive(number)),
    createIntersectionSchema(User, TransformSchema(any, "double")) }

AsyncSchemas ==
  { asyncValidate(StringMin(string, 2), "isAvailable"), asyncValidate(string, "throws"),
    object(<<<<"id", asyncValidate(StringMin(string, 2), "isAvailable")>>, <<"n", number>>>>) }

AsyncInputs ==
  { Str("a"), Str("bb"), Str("ccc"), Obj([id |-> Str("bb"), n |-> Num(2)]),
    Obj([id |-> Str("ccc"), n |-> Num(2)]), Obj([id |-> Str("a"), n |-> Num(2)]) }

Schemas ==
  LeafSchemas \cup ObjectSchemas \cup ArraySchemas \cup UnionSchemas \cup DiscriminatedSchemas
    \cup IntersectionSchemas \cup AsyncSchemas

Inputs ==
  { Undef, Null, Num(-1), Num(1), Num(2), Str("a"), Str("bb"), Bool(TRUE),
    Arr(<<>>), Arr(<<Num(1)>>), Arr(<<Num(-1), Num(-1)>>), Arr(<<Num(2), Num(-1), Str("a")>>),
    EmptyObj,
    Obj([id |-> Str("bb")]), Obj([id |-> Str("a")]), Obj([n |-> Num(2)]),
    Obj([id |-> Str("bb"), n |-> Num(2)]), Obj([id |-> Str("a"), n |-> Num(-1)]),
    Obj([id |-> Num(1), n |-> Arr(<<Num(-1), Num(-1)>>)]),
    Obj([id |-> Num(-1), n |-> Obj([id |-> Str("a")])]),
    Obj([id |-> Str("bb"), n |-> Num(2), x |-> Num(1)]),
    Obj([type |-> Str("a"), n |-> Num(2)]), Obj([type |-> Str("a"), n |-> Num(-1)]),
    Obj([type |-> Str("b"), n |-> Str("bb")]), Obj([type |-> Str("c"), n |-> Num(2)]),
    Obj([n |-> Num(1)]) }

\* the options argument of safeParse: any subset of the option keys
UserOptions ==
  { <<>>,
    [abortEarly |-> TRUE],
    [stripUnknown |-> TRUE],
    [defaults |-> FALSE],
    [abortEarly |-> TRUE, stripUnknown |-> TRUE],
    [path |-> <<"root">>],
    [abortEarly |-> TRUE, defaults |-> FALSE, path |-> <<"root">>],
    [stripUnknown |-> TRUE, path |-> <<"root">>] }

RequiredKeys == {{"id"}, {"n"}}

\* ------------------------------------------------------------------------
\* The schema and its callers
\* ------------------------------------------------------------------------
NoResult == [tag |-> "None"]

InitSchema ==
  /\ schema \in Schemas
  /\ built = <<>>
  /\ input = Undef /\ options = <<>> /\ result = NoResult
  /\ lazyCache = {} /\ extension = <<>> /\ invoked = {}
  /\ op = "init"
  /\ history = <<>> /\ currentIndex = 0 /\ maxVersions = 0 /\ autoVersion = FALSE
  /\ held = 0 /\ heldData = Undef /\ vop = "none" /\ saved = NotSaved
  /\ lastSteps = 0 /\ dropped = 0
  /\ mapping = NoMapping /\ source = Undef

\* the lazy ids whose factory the calls of one safeParse invoked
Factories(calls) == {calls[i][2] : i \in {j \in DOMAIN calls : calls[j][1] = "factory"}}

\* a builder call hands the caller a new schema; no value is parsed yet
Derived(s, call) ==
  /\ UNCHANGED <<versionedVars, bimapVars>>
  /\ schema' = s
  /\ built' = Append(built, call)
  /\ input' = Undef /\ options' = <<>> /\ result' = NoResult
  /\ op' = call.m
  /\ UNCHANGED <<lazyCache, extension, invoked>>

\* schema.partial()
PartialStep ==
  /\ Len(built) < MaxBuild
  /\ Derived(Partial(schema), [m |-> "partial", keys |-> {}])

\* schema.required(keys), on an object schema
RequiredStep(keys) ==
  /\ Len(built) < MaxBuild
  /\ schema.k = "object"
  /\ Derived(Required(schema, keys), [m |-> "required", keys |-> keys])

\* schema.safeParse(value, opts), by a caller that holds no earlier result
SafeParseStep(value, opts) ==
  /\ UNCHANGED <<versionedVars, bimapVars>>
  /\ LET out == SafeParse(schema, value, opts, [lz |-> lazyCache, calls |-> <<>>])
     IN /\ op \notin {"safeParse", "revalidate", "parseAsync", "safeParseAsync"}
        /\ input' = value
        /\ options' = opts
        /\ result' = [tag |-> out.tag, value |-> out.value, issues |-> out.issues,
                      calls |-> out.st.calls]
        /\ lazyCache' = out.st.lz
        /\ invoked' = invoked \cup Factories(out.st.calls)
        /\ op' = "safeParse"
        /\ UNCHANGED <<schema, built, extension>>

\* schema.safeParse(r.unwrap(), opts) on the Success r of the call just made
Revalidate ==
  /\ UNCHANGED <<versionedVars, bimapVars>>
  /\ op = "safeParse"
  /\ result.tag = "Ok"
  /\ LET out == SafeParse(schema, result.value, options, [lz |-> lazyCache, calls |-> <<>>])
     IN /\ input' = result.value
        /\ result' = [tag |-> out.tag, value |-> out.value, issues |-> out.issues,
                      calls |-> out.st.calls]
        /\ lazyCache' = out.st.lz
        /\ invoked' = invoked \cup Factories(out.st.calls)
        /\ op' = "revalidate"
        /\ UNCHANGED <<schema, built, options, extension>>

\* await schema.parseAsync(value), by a caller that holds no earlier result
ParseAsyncStep(value) ==
  /\ UNCHANGED <<versionedVars, bimapVars>>
  /\ LET out == ParseAsync(schema, value, <<>>, [lz |-> lazyCache, calls |-> <<>>])
     IN /\ op \notin {"safeParse", "revalidate", "parseAsync", "safeParseAsync"}
        /\ input' = value
        /\ options' = <<>>
        /\ result' = [tag |-> out.tag, value |-> out.value, issues |-> out.issues,
                      calls |-> out.st.calls]
        /\ lazyCache' = out.st.lz
        /\ invoked' = invoked \cup Factories(out.st.calls)
        /\ op' = "parseAsync"
        /\ UNCHANGED <<schema, built, extension>>

\* the caller is done with the Result it was returned; the schema, and what
\* its lazy nodes have cached, stay
Release ==
  /\ UNCHANGED <<versionedVars, bimapVars>>
  /\ op \in {"safeParse", "revalidate", "parseAsync", "safeParseAsync"}
  /\ input' = Undef /\ options' = <<>> /\ result' = NoResult
  /\ op' = "released"
  /\ UNCHANGED <<schema, built, lazyCache, extension, invoked>>

NextSchema ==
  \/ PartialStep
  \/ \E keys \in RequiredKeys : RequiredStep(keys)
  \/ \E value \in Inputs, opts \in UserOptions : SafeParseStep(value, opts)
  \/ Revalidate
  \/ \E value \in AsyncInputs : ParseAsyncStep(value)
  \/ Release

SpecSchema == InitSchema /\ [][NextSchema]_vars

\* ------------------------------------------------------------------------
\* Properties of safeParse
\* ------------------------------------------------------------------------
Merged == MergeOptions(options)
Effects == [lz |-> lazyCache, calls |-> <<>>]

\* C1: every safeParse call returns a Success or a Failure; none raises.
SafeParseTotal == op = "safeParse" => result.tag \in {"Ok", "Err"}

\* what member i of the union the caller holds answers to the same call
MemberResult(i) == SafeParse(schema.schemas[i], input, options, Effects)
Accepting == {i \in DOMAIN schema.schemas : IsOk(MemberResult(i))}
FirstAccepting == CHOOSE i \in Accepting : \A j \in Accepting : i <= j

\* C5: a union succeeds exactly when one of its members does, and then with
\* the output of the first member, in declaration order, that succeeds.
UnionExhaustive ==
  (op = "safeParse" /\ schema.k = "union") =>
    /\ IsOk(result) <=> Accepting # {}
    /\ IsOk(result) => result.value = MemberResult(FirstAccepting).value

RECURSIVE MemberIssues(_)
MemberIssues(i) ==
  IF i > Len(schema.schemas) THEN <<>> ELSE MemberResult(i).issues \o MemberIssues(i + 1)

AllReject == \A i \in DOMAIN schema.schemas : IsErr(MemberResult(i))

DiscriminatedMismatch ==
  (op = "safeParse" /\ schema.k = "discriminatedUnion" /\ input.t = "object") =>
    /\ ~HasKey(input, schema.discriminator) =>
         /\ IsErr(result)
         /\ "union.discriminator_missing" \in Codes(result.issues)
         /\ result.calls = <<>>
    /\ (HasKey(input, schema.discriminator) /\ Accepting = {}) =>
         /\ IsErr(result)
         /\ "union.no_discriminator_match" \in Codes(result.issues)
    /\ ~({"union.discriminator_missing", "union.no_discriminator_match"}
           \subseteq Codes(result.issues))

\* the caller's schema is the direct result of partial() on an object schema
IsPartialObject ==
  /\ schema.k = "object"
  /\ built # <<>>
  /\ built[Len(built)].m = "partial"

\* what the schema of field i answers for the value the input carries for it
FieldResult(i) ==
  LET key == schema.shape[i][1]
  IN SafeParse(schema.shape[i][2], input.v[key],
               WithPath(Merged, Append(Merged.path, key)), Effects)

PresentFieldsValid ==
  \A i \in DOMAIN schema.shape :
    schema.shape[i][1] \in DOMAIN input.v => IsOk(FieldResult(i))

IsPartialRequiredId ==
  built = <<[m |-> "partial", keys |-> {}], [m |-> "required", keys |-> {"id"}]>>

DefaultResolves(key) ==
  /\ Merged.defaults # FALSE
  /\ \/ key \in DOMAIN schema.defaults
     \/ \E i \in DOMAIN schema.shape :
          /\ schema.shape[i][1] = key
          /\ LET probe == SafeParse(schema.shape[i][2], Undef,
                                    Put(WithPath(Merged, Append(Merged.path, key)),
                                        "defaults", TRUE), Effects)
             IN IsOk(probe) /\ probe.value # Undef

\* the builder calls made since the last partial() (all of them if none)
LastPartial ==
  LET at == {i \in DOMAIN built : built[i].m = "partial"}
  IN IF at = {} THEN 0 ELSE CHOOSE i \in at : \A j \in at : j <= i
KeysSince == UNION {built[i].keys : i \in (LastPartial + 1)..Len(built)}

AbortEarlyBound ==
  (op = "safeParse" /\ schema.k \in {"object", "array"} /\ Merged.abortEarly
     /\ IsErr(result)) =>
    Len(result.issues) <= 1

Accepts(s, value) ==
  LET r == SafeParse(s, value, <<>>, NoEffects)
  IN IsOk(r) /\ r.value = value

RECURSIVE FactoryRaises(_)
\* the factory of the lazy node s, or of the lazy node it is the partial of,
\* raises
FactoryRaises(s) ==
  \/ s.factory.f = "throws"
  \/ s.factory.f = "partialOf" /\ FactoryRaises(s.factory.of)

RECURSIVE Stable(_)
\* s holds no node that rewrites the value with a user function (transform,
\* preprocess, postprocess, custom), no lazy node whose factory raises, no
\* intersection of anything but object schemas, and no default value that
\* its own schema rejects
Stable(s) ==
  CASE s.k \in {"number", "string", "boolean", "any", "enum"} -> TRUE
    [] s.k \in {"optional", "optionalObject", "refine"} -> Stable(s.base)
    [] s.k = "array" ->
         /\ Stable(s.item)
         /\ \A d \in s.default : Accepts(s, Arr(d))
    [] s.k = "optionalArray" -> Stable(s.array)
    [] s.k = "object" ->
         \A i \in DOMAIN s.shape :
           /\ Stable(s.shape[i][2])
           /\ s.shape[i][1] \in DOMAIN s.defaults =>
                Accepts(s.shape[i][2], s.defaults[s.shape[i][1]])
    [] s.k \in {"union", "discriminatedUnion"} ->
         \A i \in DOMAIN s.schemas : Stable(s.schemas[i])
    [] s.k = "intersection" ->
         \A i \in DOMAIN s.schemas : s.schemas[i].k = "object" /\ Stable(s.schemas[i])
    [] s.k = "lazy" -> ~FactoryRaises(s) /\ Stable(LazyTarget(s))
    [] OTHER -> FALSE

Mapper(fn, o) ==
  IF fn.f = "get"
  THEN IF HasKey(o, fn.key) THEN o.v[fn.key] ELSE Undef
  ELSE fn.val

\* the loop over Object.entries(fns): every key is assigned, undefined included
ApplyMapping(fns, o) ==
  Obj([key \in {fns[i][1] : i \in DOMAIN fns} |->
         Mapper(fns[CHOOSE i \in DOMAIN fns : fns[i][1] = key][2], o)])

BiMapCtor(sourceSchema, targetSchema, config) ==
  [k |-> "bimap", sourceSchema |-> sourceSchema, targetSchema |-> targetSchema,
   config |-> config]

\* BiMap.to
BiMapTo(m, value) == SafeParse(m.targetSchema, ApplyMapping(m.config.to, value), <<>>, NoEffects)

BiMapFromUsingTo(m, target) ==
  SafeParse(m.sourceSchema, ApplyMapping(m.config.to, target), <<>>, NoEffects)

\* BiMap.from
BiMapFrom(m, target) ==
  SafeParse(m.sourceSchema, ApplyMapping(m.config.from, target), <<>>, NoEffects)

Get(key) == [f |-> "get", key |-> key]
RenameTo == <<<<"user_id", Get("id")>>, <<"count", Get("n")>>>>
RenameFrom == <<<<"id", Get("user_id")>>, <<"n", Get("count")>>>>
ConstFrom == <<<<"id", Get("user_id")>>, <<"n", [f |-> "const", val |-> Num(1)]>>>>
Configs == {[to |-> RenameTo, from |-> RenameFrom], [to |-> RenameTo, from |-> ConstFrom]}

DomainSchemas ==
  { object(<<<<"id", string>>, <<"n", number>>>>),
    object(<<<<"id", string>>, <<"n", TransformSchema(number, "double")>>>>),
    ObjectOptionalKeys(object(<<<<"id", string>>, <<"n", Optional(number)>>>>), {"n"}) }
ApiSchemas ==
  { object(<<<<"user_id", string>>, <<"count", number>>>>),
    object(<<<<"user_id", StringMin(string, 2)>>, <<"count", number>>>>),
    object(<<<<"user_id", string>>, <<"count", PostprocessSchema(number, "wrap")>>>>) }
BiMaps == {BiMapCtor(a, b, c) : a \in DomainSchemas, b \in ApiSchemas, c \in Configs}

DomainValues ==
  { Obj([id |-> Str("a"), n |-> Num(1)]), Obj([id |-> Str("bb"), n |-> Num(2)]),
    Obj([id |-> Str("bb"), n |-> Num(2), x |-> Num(1)]), Obj([id |-> Str("bb")]),
    Obj([id |-> Num(1), n |-> Num(1)]), EmptyObj }

InitBiMap ==
  /\ mapping \in BiMaps /\ source = Undef
  /\ schema = any /\ built = <<>> /\ input = Undef /\ options = <<>>
  /\ result = NoResult /\ lazyCache = {} /\ op = "init"
  /\ extension = <<>> /\ invoked = {}
  /\ history = <<>> /\ currentIndex = 0 /\ maxVersions = 0 /\ autoVersion = FALSE
  /\ held = 0 /\ heldData = Undef /\ vop = "none" /\ saved = NotSaved
  /\ lastSteps = 0 /\ dropped = 0

\* mapping.to(value)
ToStep(value) ==
  /\ UNCHANGED <<versionedVars, schema, built, options, lazyCache, extension, invoked, mapping>>
  /\ op \notin {"to", "from"}
  /\ LET out == BiMapTo(mapping, value)
     IN /\ source' = value
        /\ input' = value
        /\ result' = [tag |-> out.tag, value |-> out.value, issues |-> out.issues,
                      calls |-> out.st.calls]
        /\ op' = "to"

\* mapping.from(r.unwrap()) on the Success r that mapping.to just returned
FromStep ==
  /\ UNCHANGED <<versionedVars, schema, built, options, lazyCache, extension, invoked,
                 mapping, source>>
  /\ op = "to"
  /\ result.tag = "Ok"
  /\ LET out == BiMapFrom(mapping, result.value)
     IN /\ input' = result.value
        /\ result' = [tag |-> out.tag, value |-> out.value, issues |-> out.issues,
                      calls |-> out.st.calls]
        /\ op' = "from"

\* the caller drops the Result it holds
Forget ==
  /\ UNCHANGED <<versionedVars, schema, built, options, lazyCache, extension, invoked, mapping>>
  /\ op \in {"to", "from"}
  /\ source' = Undef /\ input' = Undef /\ result' = NoResult
  /\ op' = "released"

NextBiMap ==
  \/ \E value \in DomainValues : ToStep(value)
  \/ FromStep
  \/ Forget

SpecBiMap == InitBiMap /\ [][NextBiMap]_vars

\* from(to(x)) = x on every object that has exactly the keys of config.from,
\* and to(from(y)) = y on every object that has exactly the keys of config.to
ProbeValues == {Str("a"), Num(1), Num(2)}
KeysOf(fns) == {fns[i][1] : i \in DOMAIN fns}
MutuallyInverse(config) ==
  /\ \A x \in [KeysOf(config.from) -> ProbeValues] :
       ApplyMapping(config.from, ApplyMapping(config.to, Obj(x))) = Obj(x)
  /\ \A y \in [KeysOf(config.to) -> ProbeValues] :
       ApplyMapping(config.to, ApplyMapping(config.from, Obj(y))) = Obj(y)

SourceAccepts(value) == IsOk(SafeParse(mapping.sourceSchema, value, <<>>, NoEffects))

\* C12 as stated: with mutually inverse field functions, every value the
\* source schema accepts converts with to() into a Success, and from() of that
\* Success's value is a Success whose value equals the original.
BiMapRoundTrip ==
  (op \in {"to", "from"} /\ MutuallyInverse(mapping.config) /\ SourceAccepts(source)) =>
    /\ result.tag = "Ok"
    /\ op = "from" => result.value = source

\* C12, amended: with mutually inverse field functions, every value v whose
\* keys are exactly those of config.from, that the source schema accepts and
\* returns unchanged, and whose image under config.to the target schema
\* accepts and returns unchanged, converts with to() into a Success, and
\* from() of that Success's value is a Success whose value equals v.
BiMapRoundTripExact ==
  (/\ op \in {"to", "from"}
   /\ MutuallyInverse(mapping.config)
   /\ DOMAIN source.v = KeysOf(mapping.config.from)
   /\ Accepts(mapping.sourceSchema, source)
   /\ Accepts(mapping.targetSchema, ApplyMapping(mapping.config.to, source))) =>
    /\ result.tag = "Ok"
    /\ op = "from" => result.value = source

BiMapReturned ==
  /\ op = "from"
  /\ MutuallyInverse(mapping.config)
  /\ DOMAIN source.v = KeysOf(mapping.config.from)
  /\ Accepts(mapping.sourceSchema, source)
  /\ Accepts(mapping.targetSchema, ApplyMapping(mapping.config.to, source))
  /\ result.tag = "Ok"
  /\ input = Obj([user_id |-> Str("bb"), count |-> Num(2)])

\* ------------------------------------------------------------------------
\* Permission-gated and permission-aware schemas and their callers
\* ------------------------------------------------------------------------
Requirements ==
  { Str("admin"), Arr(<<Str("admin"), Str("manager")>>),
    Condition(Arr(<<Str("admin"), Str("manager")>>), "isOwner"),
    Condition(Undef, "isOwner"), Condition(Str("admin"), "none") }

ContextSchemas ==
  {restrict(b, r) : b \in {PositiveMin, User, RefinedSchema(number, "isPositive")},
                    r \in Requirements}
  \cup {withPermissions(User, f) : f \in {<<>>} \cup {[n |-> r] : r \in Requirements}}

Contexts ==
  { Undef, Str(""), Str("admin"), Str("user"), Arr(<<Str("user"), Str("admin")>>),
    EmptyObj, Obj([role |-> Str("admin")]),
    Obj([role |-> Str("user"), roles |-> Arr(<<Str("admin")>>)]),
    Obj([roles |-> Str("manager")]),
    Obj([user |-> Obj([role |-> Arr(<<Str("admin")>>)])]),
    Obj([user |-> Obj([roles |-> Str("manager")])]),
    Obj([role |-> Str("manager"), owner |-> Bool(TRUE)]),
    Obj([owner |-> Bool(TRUE)]) }

ContextOptions ==
  {<<>>} \cup {[context |-> c] : c \in Contexts}
         \cup {[context |-> c, path |-> <<"root">>, abortEarly |-> TRUE] : c \in Contexts}

ContextInputs ==
  { Undef, Num(-1), Num(2), Obj([id |-> Str("bb"), n |-> Num(2)]),
    Obj([id |-> Str("a"), n |-> Num(-1)]), Obj([id |-> Str("bb"), n |-> Num(2), x |-> Num(1)]) }

InitContext ==
  /\ schema \in ContextSchemas
  /\ built = <<>>
  /\ input = Undef /\ options = <<>> /\ result = NoResult
  /\ lazyCache = {} /\ extension = <<>> /\ invoked = {}
  /\ op = "init"
  /\ history = <<>> /\ currentIndex = 0 /\ maxVersions = 0 /\ autoVersion = FALSE
  /\ held = 0 /\ heldData = Undef /\ vop = "none" /\ saved = NotSaved
  /\ lastSteps = 0 /\ dropped = 0
  /\ mapping = NoMapping /\ source = Undef

NextContext ==
  \/ \E value \in ContextInputs, opts \in ContextOptions : SafeParseStep(value, opts)
  \/ Release

SpecContext == InitContext /\ [][NextContext]_vars

\* the context of the call satisfies the requirement
Satisfies(requirement) ==
  CheckPermission(requirement, GetUserRoles(Context(options)), Context(options))

PermissionFiltering ==
  (op = "safeParse" /\ schema.k = "permissionAware" /\ result.tag = "Ok") =>
    LET base == SafeParse(schema.base, input, options, Effects).value
    IN \A key \in DOMAIN base.v :
         IF key \in DOMAIN schema.fieldPermissions
         THEN key \in DOMAIN result.value.v => Satisfies(schema.fieldPermissions[key])
         ELSE key \in DOMAIN result.value.v /\ result.value.v[key] = base.v[key]

\* ------------------------------------------------------------------------
\* Builder calls on a schema the caller keeps
\* ------------------------------------------------------------------------
\* a builder call on `schema` returned node; the caller keeps both
Returned(node, name) ==
  /\ UNCHANGED <<versionedVars, bimapVars>>
  /\ result' = [tag |-> "Node", node |-> node]
  /\ op' = name
  /\ UNCHANGED <<schema, built, input, options, lazyCache, invoked>>

\* schema.partial()
PartialCall == Returned(Partial(schema), "partial") /\ UNCHANGED extension

\* NumberSchema.min(n)
MinCall(n) ==
  /\ schema.k = "number"
  /\ Returned(NumberMin(schema, n), "min") /\ UNCHANGED extension

\* ObjectSchema.required(keys)
RequiredCall(keys) ==
  /\ schema.k = "object"
  /\ Returned(Required(schema, keys), "required") /\ UNCHANGED extension

\* ObjectSchema.default('id', 'dd')
DefaultCall ==
  /\ schema.k = "object"
  /\ Returned(ObjectDefault(schema, "id", Str("dd")), "default") /\ UNCHANGED extension

\* Schema.refine / transform / preprocess / postprocess (fn)
WrapCall(kind, fn) ==
  Returned([k |-> kind, base |-> schema, fn |-> fn], kind) /\ UNCHANGED extension

\* Schema.restrict(requirement)
RestrictCall(requirement) ==
  Returned(restrict(schema, requirement), "restrict") /\ UNCHANGED extension

\* Schema.extend(methods): every entry of methods is assigned to the schema
\* itself, which is what the call returns
ExtendCall(methods) ==
  /\ Returned(schema, "extend")
  /\ extension' = [key \in (DOMAIN extension) \cup (DOMAIN methods) |->
                     IF key \in DOMAIN methods THEN methods[key] ELSE extension[key]]

\* schema.safeParse(value): safeParse calls this._parse, which is the own
\* property of that name when extend() assigned one ((data) => ok(data) here)
ParseReceiver(value) ==
  /\ UNCHANGED <<versionedVars, bimapVars>>
  /\ LET st == [lz |-> lazyCache, calls |-> <<>>]
         out == IF "_parse" \in DOMAIN extension
                THEN OkR(value, st)
                ELSE SafeParse(schema, value, <<>>, st)
     IN /\ input' = value
        /\ result' = [tag |-> out.tag, value |-> out.value, issues |-> out.issues,
                      calls |-> out.st.calls]
        /\ lazyCache' = out.st.lz
        /\ invoked' = invoked \cup Factories(out.st.calls)
        /\ op' = "safeParse"
        /\ UNCHANGED <<schema, built, options, extension>>

Methods == {"between" :> "between", "_parse" :> "acceptAll"}

NextBuilder ==
  \/ PartialCall
  \/ \E n \in 0..MaxNum : MinCall(n)
  \/ \E keys \in RequiredKeys : RequiredCall(keys)
  \/ DefaultCall
  \/ \E kind \in {"refine", "transform", "preprocess", "postprocess"} : WrapCall(kind, "throws")
  \/ RestrictCall(Str("admin"))
  \/ \E methods \in Methods : ExtendCall(methods)
  \/ \E value \in {Undef, Num(2), Str("bb"), Obj([id |-> Str("bb"), n |-> Num(2)])} :
       ParseReceiver(value)

SpecBuilder == InitSchema /\ [][NextBuilder]_vars

\* C15: a builder call leaves the schema it is called on as it was (its
\* configuration, its own methods), and the schema answers safeParse as it
\* did before any builder call was made on it.
BuildersLeaveReceiver ==
  [][/\ op' \in {"partial", "min", "required", "default", "refine", "transform",
                  "preprocess", "postprocess", "restrict", "extend"} =>
          (schema' = schema /\ extension' = extension)
     /\ op' = "safeParse" =>
          LET pristine == SafeParse(schema, input', <<>>, [lz |-> lazyCache, calls |-> <<>>])
          IN result'.tag = pristine.tag /\ result'.value = pristine.value]_vars

\* ------------------------------------------------------------------------
\* Exceptions of user functions, and the memo of lazy schemas
\* ------------------------------------------------------------------------
\* C16: when a transform function, a refine predicate or a postprocess
\* function raises during a safeParse call, the call returns a Failure.
ExceptionsConverted ==
  (/\ op = "safeParse"
   /\ \E i \in DOMAIN result.calls :
        /\ result.calls[i][1] \in {"transformer", "refinement", "postprocessor"}
        /\ result.calls[i][2] = "throws") =>
    result.tag = "Err"

ParseOps == {"safeParse", "revalidate"}

\* C17 as stated: over all the calls made on a schema, the factory of each
\* of its lazy nodes is invoked at most once.
FactoryInvokedOnce ==
  [][op' \in ParseOps =>
       \A i \in DOMAIN result'.calls :
         result'.calls[i][1] = "factory" =>
           /\ result'.calls[i][2] \notin invoked
           /\ \A j \in DOMAIN result'.calls : result'.calls[j] = result'.calls[i] => j = i]_vars

\* the lazy nodes explored whose factory raises: ThrowingLazy and its partials
Raises(id) == id[1] = "T"

\* C17, amended: a factory that returns is invoked at most once over all the
\* calls made on the schema, its result is memoized by the call that invoked
\* it, and a memo once written stays; a factory that raises writes no memo
\* and is invoked again by every later call that needs the schema.
FactoryMemoized ==
  [][op' \in ParseOps =>
       /\ lazyCache \subseteq lazyCache'
       /\ \A i \in DOMAIN result'.calls :
            (result'.calls[i][1] = "factory" /\ ~Raises(result'.calls[i][2])) =>
              /\ result'.calls[i][2] \notin invoked
              /\ result'.calls[i][2] \in lazyCache'
              /\ \A j \in DOMAIN result'.calls : result'.calls[j] = result'.calls[i] => j = i
       /\ \A id \in lazyCache' : ~Raises(id)]_vars

MemoReused ==
  /\ op = "safeParse"
  /\ schema.k = "lazy" /\ schema.id \in lazyCache
  /\ schema.id \in invoked
  /\ input.t = "array"
  /\ Factories(result.calls) = {}

\* ------------------------------------------------------------------------
\* parseAsync
\* ------------------------------------------------------------------------
\* field i of the object schema carries an async validator that settles to
\* false on the value the input has for it, a value its synchronous checks accept
AsyncFieldFails(i) ==
  LET key == schema.shape[i][1]
      field == schema.shape[i][2]
  IN /\ field.k = "async"
     /\ HasKey(input, key)
     /\ IsOk(FieldResult(i))
     /\ ~AsyncValidator(field.fn, FieldResult(i).value).val

\* C18: parseAsync on an object schema rejects when the async validator of
\* one of its fields settles to false on a value that passes the field's
\* synchronous checks.
NestedAsyncEnforced ==
  (op = "parseAsync" /\ schema.k = "object" /\ \E i \in DOMAIN schema.shape : AsyncFieldFails(i)) =>
    result.tag = "Rejected"

\* ------------------------------------------------------------------------
\* Branch-overwrite and cursor bounds of Versioned
\* ------------------------------------------------------------------------
Min(a, b) == IF a <= b THEN a ELSE b

\* s is a suffix of t
IsSuffix(s, t) ==
  /\ Len(s) <= Len(t)
  /\ \A i \in 1..Len(s) : s[i] = t[Len(t) - Len(s) + i]

\* the entries up to and including the cursor
UpToCursor == SubSeq(history, 1, Min(currentIndex + 1, Len(history)))
\* every entry but the last
Earlier(h) == SubSeq(h, 1, Len(h) - 1)

\* C19 as stated: immediately after any successful transform, whatever the
\* options of the instance, the cursor designates the last entry of the
\* history, so that redo(n) fails for every n >= 1.
TransformEndsAtTip ==
  vop = "transform" => (HasCurrent /\ currentIndex = Len(history) - 1)

\* C19 (amended): a commit that appends (createVersion always, transform when
\* autoVersion is on) keeps of the old history only entries up to the cursor,
\* and after such a transform the cursor designates the last entry, so no
\* redo can succeed; a transform with autoVersion off replaces the data of the
\* current entry and leaves length, cursor and every other entry as they were.
BranchOverwrite ==
  [][/\ (vop' = "createVersion" \/ (vop' = "transform" /\ autoVersion))
          => /\ IsSuffix(Earlier(history'), UpToCursor)
             /\ \A n \in 1..(MaxSteps + 1) : RedoTarget(currentIndex', n) >= Len(history')
     /\ (vop' = "transform" /\ autoVersion)
          => (currentIndex' = Len(history') - 1 /\ Len(history') >= 1)
     /\ (vop' = "transform" /\ ~autoVersion)
          => /\ Len(history') = Len(history) /\ currentIndex' = currentIndex
             /\ \A i \in DOMAIN history :
                  i # currentIndex + 1 => history'[i] = history[i]]_vars

\* a transform committed from a rewound state dropped the entries beyond the
\* cursor and left the cursor on the new last entry
FutureDropped ==
  /\ vop = "transform" /\ autoVersion /\ dropped >= 1
  /\ Len(history) >= 2 /\ currentIndex = Len(history) - 1

\* C20: with cursor c and history length L, revert(n) succeeds exactly when
\* 1 <= n <= c and moves the cursor to c - n, redo(n) succeeds exactly when
\* 1 <= n <= L - 1 - c and moves the cursor to c + n; every other call raises
\* and leaves the cursor where it was; neither ever changes the history.
RevertRedoBounds ==
  [][/\ vop' \in {"revert", "revertRaised"}
          => /\ history' = history
             /\ IF 1 <= lastSteps' /\ lastSteps' <= currentIndex
                THEN vop' = "revert" /\ currentIndex' = currentIndex - lastSteps'
                ELSE vop' = "revertRaised" /\ currentIndex' = currentIndex
     /\ vop' \in {"redo", "redoAfterRevert", "redoRaised"}
          => /\ history' = history
             /\ IF 1 <= lastSteps' /\ lastSteps' <= Len(history) - 1 - currentIndex
                THEN vop' # "redoRaised" /\ currentIndex' = currentIndex + lastSteps'
                ELSE vop' = "redoRaised" /\ currentIndex' = currentIndex]_vars

\* a redo of two steps reached the last of three entries
RedoTwoSteps ==
  /\ vop = "redo" /\ lastSteps = 2 /\ currentIndex = 2 /\ Len(history) = 3

\* ------------------------------------------------------------------------
\* Failed commits and cursor validity of Versioned
\* ------------------------------------------------------------------------
\* the n for which the schema of the instance rejects the data
RejectedData ==
  {x \in (-1)..MaxNum : ~IsOk(SafeParse(VersionedSchema, Data(x), <<>>, NoEffects))}

\* C21: a transform whose mutated clone the schema rejects, and a
\* createVersion with data the schema rejects, raise, and the history entries
\* (count, data, labels), the cursor and `current` are what they were before.
FailedCommitUntouched ==
  [][/\ vop' \in {"transformRaised", "createVersionRaised"}
          => /\ history' = history
             /\ currentIndex' = currentIndex
             /\ HasCurrent => (HasCurrent' /\ Current' = Current)
     /\ vop' = "createVersion"
          => \A x \in RejectedData, label \in Labels : ~CreateVersion(x, label)
     /\ (vop' = "transform" /\ HasCurrent)
          => \A x \in RejectedData, label \in Labels : ~Transform(x, label)]_vars

\* a transform was rejected on an instance that holds several versions and
\* whose cursor is rewound
TransformRejected ==
  /\ vop = "transformRaised" /\ HasCurrent
  /\ Len(history) >= 2 /\ currentIndex < Len(history) - 1

\* C22: for an instance created with maxVersions >= 1, in every reachable
\* state the history is non-empty and 0 <= cursor < history length, so
\* `current` can be read and exactly one history entry has isCurrent = true.
CursorValid ==
  maxVersions >= 1 =>
    /\ Len(history) >= 1
    /\ 0 <= currentIndex /\ currentIndex < Len(history)
    /\ HasCurrent
    /\ Cardinality({i \in DOMAIN history : i - 1 = currentIndex}) = 1

\* a commit on a full history evicted the oldest entry and moved the cursor
\* back with it
CommitOnFullHistory ==
  /\ maxVersions >= 2 /\ Len(history) = maxVersions
  /\ vop \in {"transform", "createVersion"} /\ autoVersion
  /\ currentIndex = maxVersions - 1
  /\ history[1].label # ""

\* ------------------------------------------------------------------------
\* Discriminated unions
\* ------------------------------------------------------------------------
\* a member whose discriminator field converts the tag it accepted
Relabelling ==
  object(<<<<"type", TransformSchema(createEnum({Str("a")}), "toOkNull")>>, <<"n", number>>>>)

RelabellingUnions ==
  { createDiscriminatedUnionSchema("type", <<Relabelling, Variant("a", PositiveMin)>>),
    createDiscriminatedUnionSchema("type", <<Variant("b", StringMin(string, 2)), Relabelling>>) }

InitDiscriminated ==
  /\ schema \in DiscriminatedSchemas \cup RelabellingUnions
  /\ built = <<>>
  /\ input = Undef /\ options = <<>> /\ result = NoResult
  /\ lazyCache = {} /\ extension = <<>> /\ invoked = {}
  /\ op = "init"
  /\ history = <<>> /\ currentIndex = 0 /\ maxVersions = 0 /\ autoVersion = FALSE
  /\ held = 0 /\ heldData = Undef /\ vop = "none" /\ saved = NotSaved
  /\ lastSteps = 0 /\ dropped = 0
  /\ mapping = NoMapping /\ source = Undef

NextDiscriminated ==
  \/ \E value \in Inputs, opts \in UserOptions : SafeParseStep(value, opts)
  \/ Release

SpecDiscriminated == InitDiscriminated /\ [][NextDiscriminated]_vars

\* C23: a discriminated union never returns a Success whose discriminator
\* value differs from the discriminator value of the input.
DiscriminatorPreserved ==
  (op = "safeParse" /\ schema.k = "discriminatedUnion" /\ result.tag = "Ok")
    => /\ result.value.t = "object"
       /\ HasKey(result.value, schema.discriminator)
       /\ result.value.v[schema.discriminator] = input.v[schema.discriminator]

\* ------------------------------------------------------------------------
\* Intersections
\* ------------------------------------------------------------------------
\* the shallow field union of two outputs, the fields of b winning
FieldUnion(a, b) ==
  Obj([key \in Fields(a) \cup Fields(b) |-> IF key \in Fields(b) THEN b.v[key] ELSE a.v[key]])

IssuesOf(r) == IF IsErr(r) THEN r.issues ELSE <<>>

LazyFailureReported ==
  (op \in ParseOps /\ schema.k = "lazy" /\ FactoryRaises(schema)
     /\ Factories(result.calls) # {})
    => \/ /\ IsErr(result)
          /\ result.issues = <<Issue("lazy.evaluation_error", Merged.path)>>
       \/ /\ input = Undef /\ Merged.defaults
          /\ IsOk(result) /\ result.value = Arr(<<>>)

\* ------------------------------------------------------------------------
\* Context-gated rules
\* ------------------------------------------------------------------------
RuleSet ==
  { ContextualRule(Str("create"), NumberMin(number, 2)),
    ContextualRule(Obj([role |-> Str("admin")]), TransformSchema(number, "double")),
    ContextualRule(Str("create"), NumberMax(number, 3)),
    ContextualRule(EmptyObj, RefinedSchema(number, "isPositive")) }

RECURSIVE WithRules(_, _)
\* a chain of whenContext calls, one per rule
WithRules(s, rules) ==
  IF rules = <<>> THEN s
  ELSE WithRules(whenContext(s, rules[1].context, rules[1].schema), Tail(rules))

ContextualSchemas ==
  {withContext(number)}
    \cup {WithRules(number, <<a>>) : a \in RuleSet}
    \cup {WithRules(withContext(number), <<a, b>>) : a \in RuleSet, b \in RuleSet}
    \cup {WithRules(number, <<a, b, c>>) : a \in RuleSet, b \in RuleSet, c \in RuleSet}

ActiveContexts ==
  { Undef, Str("create"), Str("update"), EmptyObj, Obj([role |-> Str("admin")]),
    Obj([role |-> Str("admin"), mode |-> Str("create")]), Obj([role |-> Str("user")]),
    Arr(<<Str("create")>>) }

ContextualOptions ==
  {<<>>} \cup {[context |-> c] : c \in ActiveContexts}
         \cup {[context |-> c, path |-> <<"root">>, abortEarly |-> TRUE] : c \in ActiveContexts}

ContextualInputs == {Undef, Num(-1), Num(1), Num(2), Str("a")}

InitContextual ==
  /\ schema \in ContextualSchemas
  /\ built = <<>>
  /\ input = Undef /\ options = <<>> /\ result = NoResult
  /\ lazyCache = {} /\ extension = <<>> /\ invoked = {}
  /\ op = "init"
  /\ history = <<>> /\ currentIndex = 0 /\ maxVersions = 0 /\ autoVersion = FALSE
  /\ held = 0 /\ heldData = Undef /\ vop = "none" /\ saved = NotSaved
  /\ lastSteps = 0 /\ dropped = 0
  /\ mapping = NoMapping /\ source = Undef

NextContextual ==
  \/ \E value \in ContextualInputs, opts \in ContextualOptions : SafeParseStep(value, opts)
  \/ Release

SpecContextual == InitContextual /\ [][NextContextual]_vars

\* the rule applications of the call, in the order they were made: each is
\* <<index of the rule, value the rule received>>
Applied ==
  LET made == SelectSeq(result.calls, LAMBDA c : c[1] = "rule")
  IN [k \in DOMAIN made |-> made[k][2]]

\* the rule matches the context of the call: equal strings, or a target whose
\* every entry the structured context holds
RuleMatches(j) ==
  LET current == Context(options)
      target == schema.rules[j].context
  IN \/ current.t = "string" /\ target.t = "string" /\ current = target
     \/ /\ current.t \in {"object", "array"} /\ target.t = "object"
        /\ \A key \in DOMAIN target.v :
             current.t = "object" /\ key \in DOMAIN current.v /\ current.v[key] = target.v[key]

\* what the k-th applied rule answers to the value it received
RuleOut(k) == SafeParse(schema.rules[Applied[k][1]].schema, Applied[k][2], options, Effects)
BaseOut == SafeParse(schema.base, input, options, Effects)

SameOutcome(r, expected) ==
  r.tag = expected.tag /\ r.value = expected.value /\ r.issues = expected.issues

\* C26: a contextual schema returns the base failure without running a rule;
\* otherwise it applies, in registration order, exactly the rules matching the
\* active context, each on the output of the previous applied rule, stops at
\* the first failing rule with that rule's error, and with no context applies
\* no rule and answers as the base schema does.
ContextRuleOrdering ==
  (op = "safeParse" /\ schema.k = "contextual") =>
    LET n == Len(Applied)
    IN /\ ~IsOk(BaseOut) => (n = 0 /\ SameOutcome(result, BaseOut))
       /\ Context(options) = Undef => (n = 0 /\ SameOutcome(result, BaseOut))
       /\ IsOk(BaseOut) =>
            /\ \A k \in 1..n : RuleMatches(Applied[k][1])
            /\ \A k \in 1..(n - 1) : Applied[k][1] < Applied[k + 1][1] /\ IsOk(RuleOut(k))
            /\ \A k \in 1..n :
                 Applied[k][2] = IF k = 1 THEN BaseOut.value ELSE RuleOut(k - 1).value
            /\ \A j \in DOMAIN schema.rules :
                 (RuleMatches(j) /\ \A k \in 1..n : Applied[k][1] # j)
                   => (n > 0 /\ ~IsOk(RuleOut(n)) /\ j > Applied[n][1])
            /\ SameOutcome(result, IF n = 0 THEN BaseOut ELSE RuleOut(n))

\* two rules matched: the second received the converted output of the first
\* and rejected it
SecondRuleRejected ==
  /\ op = "safeParse" /\ schema.k = "contextual" /\ IsErr(result)
  /\ Len(Applied) = 2 /\ Len(schema.rules) = 3
  /\ Applied[2][2] # input

\* ------------------------------------------------------------------------
\* Async-validated schemas
\* ------------------------------------------------------------------------
AsyncBases ==
  { StringMin(string, 2), RefinedSchema(string, "always"),
    RefinedSchema(StringMin(string, 2), "never"), object(<<<<"id", StringMin(string, 2)>>>>) }

AsyncValidated == {asyncValidate(base, fn) : base \in AsyncBases, fn \in {"isAvailable", "throws"}}

AsyncOptions == {<<>>, [path |-> <<"root">>], [abortEarly |-> TRUE]}

InitAsync ==
  /\ schema \in AsyncValidated
  /\ built = <<>>
  /\ input = Undef /\ options = <<>> /\ result = NoResult
  /\ lazyCache = {} /\ extension = <<>> /\ invoked = {}
  /\ op = "init"
  /\ history = <<>> /\ currentIndex = 0 /\ maxVersions = 0 /\ autoVersion = FALSE
  /\ held = 0 /\ heldData = Undef /\ vop = "none" /\ saved = NotSaved
  /\ lastSteps = 0 /\ dropped = 0
  /\ mapping = NoMapping /\ source = Undef

\* await schema.safeParseAsync(value, opts)
SafeParseAsyncStep(value, opts) ==
  /\ UNCHANGED <<versionedVars, bimapVars>>
  /\ LET out == SafeParseAsync(schema, value, opts, [lz |-> lazyCache, calls |-> <<>>])
     IN /\ op \notin {"safeParse", "revalidate", "parseAsync", "safeParseAsync"}
        /\ input' = value
        /\ options' = opts
        /\ result' = [tag |-> out.tag, value |-> out.value, issues |-> out.issues,
                      calls |-> out.st.calls]
        /\ lazyCache' = out.st.lz
        /\ invoked' = invoked \cup Factories(out.st.calls)
        /\ op' = "safeParseAsync"
        /\ UNCHANGED <<schema, built, extension>>

NextAsync ==
  \/ \E value \in AsyncInputs : ParseAsyncStep(value)
  \/ \E value \in AsyncInputs, opts \in AsyncOptions : SafeParseAsyncStep(value, opts)
  \/ Release

SpecAsync == InitAsync /\ [][NextAsync]_vars

\* where in the calls of the operation the async validator was invoked
ValidatorCalls == {i \in DOMAIN result.calls : result.calls[i][1] = "asyncValidator"}

\* C27: in parseAsync and safeParseAsync of an async-validated schema the
\* async validator is invoked at most once, after everything the base
\* validation calls, with the output of the base validation, and not at all
\* when the base validation fails, the result then being the base failure.
AsyncAfterSync ==
  (op \in {"parseAsync", "safeParseAsync"} /\ schema.k = "async") =>
    /\ Cardinality(ValidatorCalls) <= 1
    /\ \A i \in ValidatorCalls :
         /\ IsOk(BaseOut)
         /\ i = Len(result.calls)
         /\ SubSeq(result.calls, 1, i - 1) = BaseOut.st.calls
         /\ result.calls[i][2] = <<schema.fn, BaseOut.value>>
    /\ IsErr(BaseOut) =>
         /\ ValidatorCalls = {}
         /\ result.tag \in {"Rejected", "Err"}
         /\ result.issues = BaseOut.issues

\* the base validation ran its own refinement, and only then did the async
\* validator run and fail the call
AsyncRejectedAfterBase ==
  /\ op = "safeParseAsync" /\ schema.k = "async" /\ IsOk(BaseOut)
  /\ Len(result.calls) = 2 /\ result.calls[1][1] = "refinement"
  /\ ValidatorCalls = {2} /\ IsErr(result)

\* ------------------------------------------------------------------------
\* Pipelines of refine, transform and postprocess
\* ------------------------------------------------------------------------
Stages ==
  { <<"refine", "isPositive">>, <<"refine", "never">>, <<"transform", "double">>,
    <<"transform", "toErr">>, <<"transform", "throws">>, <<"postprocess", "wrap">>,
    <<"postprocess", "throws">> }

\* base.refine(...), base.transform(...) or base.postprocess(...)
Staged(base, stage) ==
  CASE stage[1] = "refine" -> RefinedSchema(base, stage[2])
    [] stage[1] = "transform" -> TransformSchema(base, stage[2])
    [] OTHER -> PostprocessSchema(base, stage[2])

Pipelines ==
  {Staged(number, a) : a \in Stages}
    \cup {Staged(Staged(number, a), b) : a \in Stages, b \in Stages}
    \cup {Staged(Staged(Staged(number, a), b), c) : a \in Stages, b \in Stages, c \in Stages}

PipelineInputs == {Undef, Num(-1), Num(1), Num(2), Str("a")}
PipelineOptions == {<<>>, [path |-> <<"root">>], [abortEarly |-> TRUE]}

InitPipeline ==
  /\ schema \in Pipelines
  /\ built = <<>>
  /\ input = Undef /\ options = <<>> /\ result = NoResult
  /\ lazyCache = {} /\ extension = <<>> /\ invoked = {}
  /\ op = "init"
  /\ history = <<>> /\ currentIndex = 0 /\ maxVersions = 0 /\ autoVersion = FALSE
  /\ held = 0 /\ heldData = Undef /\ vop = "none" /\ saved = NotSaved
  /\ lastSteps = 0 /\ dropped = 0
  /\ mapping = NoMapping /\ source = Undef

NextPipeline ==
  \/ \E value \in PipelineInputs, opts \in PipelineOptions : SafeParseStep(value, opts)
  \/ Release

SpecPipeline == InitPipeline /\ [][NextPipeline]_vars

\* the name under which the function of a stage is recorded
StageFunction(s) ==
  CASE s.k = "refine" -> "refinement"
    [] s.k = "transform" -> "transformer"
    [] OTHER -> "postprocessor"

\* C28: the function of a refine, transform or postprocess stage is invoked
\* only after the wrapped schema succeeded, once, on exactly the wrapped
\* schema's output; when the wrapped schema fails the function is not invoked
\* and the result is a Failure carrying the wrapped schema's issues.
StageAfterSuccess ==
  (op = "safeParse" /\ schema.k \in {"refine", "transform", "postprocess"}) =>
    /\ IsOk(BaseOut) =>
         result.calls = Append(BaseOut.st.calls, <<StageFunction(schema), schema.fn, BaseOut.value>>)
    /\ ~IsOk(BaseOut) => result.calls = BaseOut.st.calls
    /\ IsErr(BaseOut) => (IsErr(result) /\ result.issues = BaseOut.issues)

\* the outer stage of a chain ran on the converted output of the inner one
OuterStageOnConverted ==
  /\ op = "safeParse" /\ schema.k = "refine" /\ schema.base.k = "transform"
  /\ IsOk(result) /\ Len(result.calls) = 2
  /\ result.calls[2][3] # input

\* ------------------------------------------------------------------------
\* Issue paths
\* ------------------------------------------------------------------------
\* the schemas of a declared field or of an item, one per variant
NestedSchemas ==
  { custom("isBoolean"), number, PositiveMin,
    createUnionSchema(<<NumberPositive(number), StringMin(string, 2)>>),
    ThrowingLazy, restrict(number, Str("admin")), TransformSchema(number, "double"),
    User, array(custom("isBoolean")) }

PathSchemas ==
  {object(<<<<"f", x>>>>) : x \in NestedSchemas} \cup {array(x) : x \in NestedSchemas}

PathInputs ==
  { EmptyObj, Obj([f |-> Str("a")]), Obj([f |-> Num(-1)]), Obj([f |-> Arr(<<Str("a")>>)]),
    Obj([f |-> Obj([id |-> Str("a")])]),
    Arr(<<Str("a")>>), Arr(<<Num(2), Num(-1)>>), Arr(<<Arr(<<Num(1)>>)>>),
    Arr(<<Obj([id |-> Str("a")])>>) }

PathOptions == {<<>>, [path |-> <<"root">>], [abortEarly |-> TRUE, path |-> <<"root">>]}

InitPaths ==
  /\ schema \in PathSchemas
  /\ built = <<>>
  /\ input = Undef /\ options = <<>> /\ result = NoResult
  /\ lazyCache = {} /\ extension = <<>> /\ invoked = {}
  /\ op = "init"
  /\ history = <<>> /\ currentIndex = 0 /\ maxVersions = 0 /\ autoVersion = FALSE
  /\ held = 0 /\ heldData = Undef /\ vop = "none" /\ saved = NotSaved
  /\ lastSteps = 0 /\ dropped = 0
  /\ mapping = NoMapping /\ source = Undef

NextPaths ==
  \/ \E value \in PathInputs, opts \in PathOptions : SafeParseStep(value, opts)
  \/ Release

SpecPaths == InitPaths /\ [][NextPaths]_vars

\* the path segments that address the nested values of the input
Segments ==
  IF schema.k = "object" THEN ShapeKeys(schema.shape)
  ELSE {IndexToString(i - 1) : i \in DOMAIN input.v}

\* C29: every issue an object schema validated at path P reports for a
\* declared field k has a path that starts with P followed by k, and every
\* issue an array reports for item i one that starts with P followed by the
\* stringified i; no issue of a nested value has an empty or shorter path.
PathsRootToLeaf ==
  (/\ op = "safeParse" /\ IsErr(result)
   /\ \/ schema.k = "object" /\ input.t = "object"
      \/ schema.k = "array" /\ input.t = "array")
    => \A i \in DOMAIN result.issues :
         LET path == result.issues[i].path
             P == Merged.path
         IN /\ Len(path) > Len(P)
            /\ SubSeq(path, 1, Len(P)) = P
            /\ path[Len(P) + 1] \in Segments

\* ------------------------------------------------------------------------
\* Default resolution of object fields
\* ------------------------------------------------------------------------
KeyOf(i) == schema.shape[i][1]
Absent(i) == KeyOf(i) \notin DOMAIN input.v

\* field i adds an issue: its value is rejected, or it is absent, required
\* and no default resolves
FieldFails(i) ==
  IF Absent(i)
  THEN KeyOf(i) \in schema.required /\ ~DefaultResolves(KeyOf(i))
  ELSE ~IsOk(FieldResult(i))

\* the field loop gets to field i: with abortEarly it stops at the first
\* field that adds an issue
Reached(i) == ~Merged.abortEarly \/ \A j \in 1..(i - 1) : ~FieldFails(j)

\* what schema.safeParse(undefined, { path, defaults: true }) answers for field i
Probe(i) ==
  SafeParse(schema.shape[i][2], Undef,
            Put(WithPath(Merged, Append(Merged.path, KeyOf(i))), "defaults", TRUE), Effects)

\* how many object.required issues the Failure carries at the path of field i
RequiredIssues(i) ==
  Cardinality({n \in DOMAIN result.issues :
                 result.issues[n] = Issue("object.required", Append(Merged.path, KeyOf(i)))})

====
